---------------------------- MODULE Spec2Model ----------------------------
(***************************************************************************)
(* A model of the hexagonal grid library: the A* search of                 *)
(* src/algorithms/pathfinding.rs and the mesh primitives and builders of   *)
(* src/mesh.                                                               *)
(***************************************************************************)
EXTENDS Integers, Naturals, Sequences, FiniteSets, TLC

VARIABLES
    start,      \* a_star: the `start` argument
    goal,       \* a_star: the `end` argument
    cost,       \* a_star: the caller's cost function, tabulated over Region
    open,       \* a_star: the BinaryHeap `open`, as the set of its nodes
    costs,      \* a_star: the HashMap `costs`
    came_from,  \* a_star: the HashMap `came_from`
    pc,         \* a_star: "entry" on the call, "loop" in the while-let loop, "done" after return
    result,     \* a_star: the returned Option<Vec<Hex>>
    popped,     \* a_star: the node taken by the last `open.pop()` (history)
    tie,        \* a_star: how the heap orders nodes of equal cost
    builder,    \* mesh: the builder value being configured
    mesh,       \* mesh: the MeshInfo returned by the last build / inset
    layout,     \* layout: the HexLayout the methods are called on
    call,       \* layout: the last HexLayout method called, its argument and result
    dir,        \* direction: the Direction the calls start from
    turns,      \* direction: the `offset` argument given to rotate_cw / rotate_ccw
    calls,      \* direction: the methods called so far, each on the previous result
    chain       \* direction: `dir` followed by the result of each call

astarVars == <<start, goal, cost, open, costs, came_from, pc, result, popped, tie>>
meshVars == <<builder, mesh>>
layoutVars == <<layout, call>>
directionVars == <<dir, turns, calls, chain>>
vars == <<start, goal, cost, open, costs, came_from, pc, result, popped, tie,
          builder, mesh, layout, call, dir, turns, calls, chain>>

(***************************************************************************)
(* Bounds                                                                  *)
(***************************************************************************)
\* The cost function is chosen freely on the row (0,0)..(MaxX,0) and on the
\* two coordinates (0,1), (1,1) that bypass (1,0); it is None everywhere else
MaxX == 2
\* Step costs range over 0..MaxCost
MaxCost == 1
\* with_subdivisions is called with 0..MaxSubdivisions
MaxSubdivisions == 2
\* In the uniform-cost search the goal is at most MaxDist away from start
MaxDist == 2

(***************************************************************************)
(* Option values                                                           *)
(***************************************************************************)
Some(v) == [some |-> TRUE, val |-> v]
\* Option<u32>::None of the cost function
None == [some |-> FALSE, val |-> 0]
\* Option<Vec<Hex>>::None of a_star
NoPath == [some |-> FALSE, val |-> <<>>]

(***************************************************************************)
(* Mesh primitives (src/mesh/utils.rs)                                     *)
(*                                                                         *)
(* A vector is a term: a base point `p`, a height `y` above it counted in  *)
(* side-quad heights, and the sequence `ops` of transforms applied to it   *)
(* afterwards.  Vertex indices are the 0-based u16 values of the code.     *)
(***************************************************************************)
Vec(p) == [p |-> p, y |-> 0, ops |-> << >>]

\* v + BASE_FACING * height
AddY(v, h) == [v EXCEPT !.y = @ + h]

\* The custom options a builder can hold: Option::None or a named value
Unset == "None"

\* The Vec3 values given to `facing`: a vector of non-zero length and Vec3::ZERO
Facings == {"Z", "ZERO"}

\* facing.normalize() divides the vector by its length.  On a vector of
\* length zero it panics in a build of glam with glam_assert ...
normalize_panics(facing, glam_assert) == glam_assert /\ facing = "ZERO"

\* ... and answers a vector of NaN in a build without
normalize(facing) == IF facing = "ZERO" THEN "NaN" ELSE facing

\* Quat::from_rotation_arc(BASE_FACING, to)
from_rotation_arc(to) == IF to = "NaN" THEN "NaN" ELSE "from_rotation_arc"

\* MeshInfo::default()
MeshInfo_default ==
    [vertices |-> << >>, normals |-> << >>, uvs |-> << >>, indices |-> << >>]

\* Tri::flip
Tri_flip(t) == <<t[3], t[2], t[1]>>

\* Quad::from_bottom([left, right], normal, height)
Quad_from_bottom(left, right, normal, height) ==
    [positions |-> <<right, AddY(right, height), AddY(left, height), left>>,
     normals   |-> <<normal, normal, normal, normal>>,
     uvs       |-> <<Vec(<<"uv", "X">>), Vec(<<"uv", "ONE">>),
                     Vec(<<"uv", "Y">>), Vec(<<"uv", "ZERO">>)>>,
     triangles |-> << <<2, 1, 0>>, <<0, 3, 2>> >>]

\* Mutation: the first triangle of the middle quad is wound the other way
Hexagon_center_aligned_unwound ==
    [positions |-> [i \in 1..6 |-> Vec(<<"center_aligned_corner", i - 1>>)],
     normals   |-> [i \in 1..6 |-> Vec(<<"BASE_FACING">>)],
     uvs       |-> [i \in 1..6 |-> Vec(<<"wrap_uv", i - 1>>)],
     triangles |-> << <<0, 2, 1>>, <<3, 5, 4>>, <<0, 3, 5>>, <<3, 2, 0>> >>]

\* Hexagon::center_aligned(layout)
Hexagon_center_aligned ==
    [positions |-> [i \in 1..6 |-> Vec(<<"center_aligned_corner", i - 1>>)],
     normals   |-> [i \in 1..6 |-> Vec(<<"BASE_FACING">>)],
     uvs       |-> [i \in 1..6 |-> Vec(<<"wrap_uv", i - 1>>)],
     triangles |-> << <<0, 2, 1>>, <<3, 5, 4>>, <<0, 5, 3>>, <<3, 2, 0>> >>]

\* face.triangles.into_iter().flat_map(|t| t.0).collect()
FlatTriangles(tris) ==
    [i \in 1..(3 * Len(tris)) |-> tris[((i - 1) \div 3) + 1][((i - 1) % 3) + 1]]

\* impl From<Face<VERTS, TRIS>> for MeshInfo
MeshInfo_from(face) ==
    [vertices |-> face.positions,
     normals  |-> face.normals,
     uvs      |-> face.uvs,
     indices  |-> FlatTriangles(face.triangles)]

\* Mutation: the appended indices are not rebased
merge_with_no_rebase(a, b) ==
    [vertices |-> a.vertices \o b.vertices,
     normals  |-> a.normals \o b.normals,
     uvs      |-> a.uvs \o b.uvs,
     indices  |-> a.indices \o b.indices]

\* MeshInfo::merge_with, also `mesh + part`
merge_with(a, b) ==
    [vertices |-> a.vertices \o b.vertices,
     normals  |-> a.normals \o b.normals,
     uvs      |-> a.uvs \o b.uvs,
     indices  |-> a.indices \o
                    [i \in 1..Len(b.indices) |-> b.indices[i] + Len(a.vertices)]]

ApplyOp(vs, op) == [i \in 1..Len(vs) |-> [vs[i] EXCEPT !.ops = Append(@, op)]]

\* Vec3::Y * h
VecY(h) == [vertical |-> TRUE, y |-> h, p |-> <<"Y">>]

\* Any other translation, named by the term that computes it
VecT(p) == [vertical |-> FALSE, y |-> 0, p |-> p]

\* MeshInfo::with_offset: every vertex position is moved by `offset`
with_offset(m, offset) ==
    [m EXCEPT !.vertices =
        [i \in 1..Len(m.vertices) |->
            IF m.vertices[i].ops = << >> /\ offset.vertical
            THEN AddY(m.vertices[i], offset.y)
            ELSE [m.vertices[i] EXCEPT !.ops = Append(@, <<"T", offset>>)]]]

\* MeshInfo::rotated: positions and normals are rotated
rotated(m, rotation) ==
    [m EXCEPT !.vertices = ApplyOp(m.vertices, <<"R", rotation>>),
              !.normals = ApplyOp(m.normals, <<"R", rotation>>)]

\* MeshInfo::with_scale: positions are scaled
with_scale(m, scale) ==
    [m EXCEPT !.vertices = ApplyOp(m.vertices, <<"S", scale>>)]

\* UVOptions::alter_uvs
alter_uvs(m, uv_options) ==
    [m EXCEPT !.uvs = ApplyOp(m.uvs, <<"UV", uv_options>>)]

\* InsetMode::Scale(v) / InsetMode::Distance(v); `flip` is what
\* InsetMode::should_flip answers for the value
InsetModes ==
    {[kind |-> "Scale", flip |-> FALSE]} \cup
    {[kind |-> "Distance", flip |-> f] : f \in BOOLEAN}

should_flip(mode) == mode.flip

\* Mutation: the inset vertex of a connector is taken one position too far
connection_indices_off_by_one(VERTS, flip) ==
    LET tris == [k \in 1..(2 * VERTS) |->
                   LET v_idx == (k - 1) \div 2
                       next_v_idx == (v_idx + 1) % VERTS
                       inset_v_idx == v_idx + VERTS + 1
                       next_inset_v_idx == next_v_idx + VERTS
                       t == IF k % 2 = 1
                            THEN <<next_inset_v_idx, next_v_idx, v_idx>>
                            ELSE <<v_idx, inset_v_idx, next_inset_v_idx>>
                   IN  IF flip THEN Tri_flip(t) ELSE t]
    IN  FlatTriangles(tris)

\* lines 159-175: two triangles per boundary edge between the face and its inset
connection_indices(VERTS, flip) ==
    LET tris == [k \in 1..(2 * VERTS) |->
                   LET v_idx == (k - 1) \div 2
                       next_v_idx == (v_idx + 1) % VERTS
                       inset_v_idx == v_idx + VERTS
                       next_inset_v_idx == next_v_idx + VERTS
                       t == IF k % 2 = 1
                            THEN <<next_inset_v_idx, next_v_idx, v_idx>>
                            ELSE <<v_idx, inset_v_idx, next_inset_v_idx>>
                   IN  IF flip THEN Tri_flip(t) ELSE t]
    IN  FlatTriangles(tris)

\* lines 113-152: the face with positions and uvs moved inwards
InsetFace(face, mode) ==
    [face EXCEPT !.positions = ApplyOp(face.positions, <<"inset", mode.kind>>),
                 !.uvs = ApplyOp(face.uvs, <<"inset", mode.kind>>)]

\* Mutation: the inner face's triangles are kept whatever keep_inner_face says
Face_inset_keeps_inner(face, mode, keep_inner_face) ==
    LET inset_face == MeshInfo_from(InsetFace(face, mode))
        m == [MeshInfo_from(face) EXCEPT
                 !.indices = connection_indices(Len(face.positions), should_flip(mode))]
    IN  merge_with(m, inset_face)

\* Mutation: the inner face's triangles keep the indices of the original face
Face_inset_inner_unshifted(face, mode, keep_inner_face) ==
    LET inset0 == MeshInfo_from(InsetFace(face, mode))
        inset_face == IF ~keep_inner_face
                      THEN [inset0 EXCEPT !.indices = << >>]
                      ELSE inset0
        m == [MeshInfo_from(face) EXCEPT
                 !.indices = connection_indices(Len(face.positions), should_flip(mode))]
    IN  merge_with_no_rebase(m, inset_face)

\* Face::inset(self, mode, keep_inner_face)
Face_inset(face, mode, keep_inner_face) ==
    LET inset0 == MeshInfo_from(InsetFace(face, mode))
        inset_face == IF ~keep_inner_face
                      THEN [inset0 EXCEPT !.indices = << >>]
                      ELSE inset0
        m == [MeshInfo_from(face) EXCEPT
                 !.indices = connection_indices(Len(face.positions), should_flip(mode))]
    IN  merge_with(m, inset_face)

(***************************************************************************)
(* Mesh builders (src/mesh/column_builder.rs, src/mesh/plane_builder.rs)   *)
(***************************************************************************)
\* MeshInfo::hexagonal_plane(layout, pos): the hexagon face of hex `pos`
hexagonal_plane(pos) ==
    LET face == Hexagon_center_aligned
    IN  MeshInfo_from(
            [face EXCEPT !.positions = [i \in 1..6 |-> Vec(<<"corner", i - 1, pos>>)]])

\* MeshInfo::quad([left, right], normal, height)
MeshInfo_quad(left, right, normal, height) ==
    MeshInfo_from(Quad_from_bottom(left, right, normal, height))

\* self.subdivisions.unwrap_or(0).max(1)
Subdivisions(b) ==
    LET n == IF b.subdivisions.some THEN b.subdivisions.val ELSE 0
    IN  IF n >= 1 THEN n ELSE 1

\* Mutation: every ring of side quads stands on the ground
SideQuad_on_ground(b, div, side) ==
    LET left == AddY(Vec(<<"corner", side, b.pos>>), 0)
        right == AddY(Vec(<<"corner", (side + 1) % 6, b.pos>>), 0)
    IN  MeshInfo_quad(left, right, Vec(<<"side", side, b.pos>>), 1)

\* lines 143-148: the quad of side `side` (corner pair [side, side + 1]) in ring `div`
SideQuad(b, div, side) ==
    LET left == AddY(Vec(<<"corner", side, b.pos>>), div)
        right == AddY(Vec(<<"corner", (side + 1) % 6, b.pos>>), div)
    IN  MeshInfo_quad(left, right, Vec(<<"side", side, b.pos>>), 1)

RECURSIVE ColumnSides(_, _)
\* lines 142-151: the first `count` side quads merged in loop order
ColumnSides(b, count) ==
    IF count = 0
    THEN MeshInfo_default
    ELSE merge_with(ColumnSides(b, count - 1),
                    SideQuad(b, (count - 1) \div 6, (count - 1) % 6))

\* The top face: plane.clone().with_offset(Vec3::Y * self.height)
ColumnTop(b) ==
    with_offset(hexagonal_plane(b.pos), VecY(Subdivisions(b)))

\* The bottom face: plane.rotated(from_rotation_arc(BASE_FACING, -BASE_FACING))
ColumnBottom(b) == rotated(hexagonal_plane(b.pos), "flip")

\* Mutation: the bottom face is added whatever bottom_face says
ColumnMeshBuilder_build_always_bottom(b) ==
    LET sides == ColumnSides(b, 6 * Subdivisions(b))
        m1 == IF b.top_face THEN merge_with(sides, ColumnTop(b)) ELSE sides
        m2 == merge_with(m1, ColumnBottom(b))
        m3 == IF b.offset /= Unset
              THEN with_offset(m2, VecT(<<"custom", b.offset>>)) ELSE m2
    IN  IF b.facing /= Unset
        THEN rotated(m3, from_rotation_arc(normalize(b.facing)))
        ELSE m3

\* ColumnMeshBuilder::build
ColumnMeshBuilder_build(b) ==
    LET sides == ColumnSides(b, 6 * Subdivisions(b))
        m1 == IF b.top_face THEN merge_with(sides, ColumnTop(b)) ELSE sides
        m2 == IF b.bottom_face THEN merge_with(m1, ColumnBottom(b)) ELSE m1
        m3 == IF b.offset /= Unset
              THEN with_offset(m2, VecT(<<"custom", b.offset>>)) ELSE m2
    IN  IF b.facing /= Unset
        THEN rotated(m3, from_rotation_arc(normalize(b.facing)))
        ELSE m3

\* Mutation: the translation is applied before the rotation
PlaneMeshBuilder_build_translate_first(b) ==
    LET face == Hexagon_center_aligned
        pos == IF b.center_aligned
               THEN "hex_to_center_aligned_world_pos"
               ELSE "hex_to_world_pos"
        offset == VecT(<<pos, b.pos, b.offset>>)
        m0 == IF b.inset_options.some
              THEN Face_inset(face, [kind |-> "Scale", flip |-> FALSE],
                              b.inset_options.keep_inner_face)
              ELSE MeshInfo_from(face)
        m1 == IF b.scale /= Unset THEN with_scale(m0, b.scale) ELSE m0
        m2 == with_offset(m1, offset)
        m3 == IF b.rotation /= Unset THEN rotated(m2, b.rotation) ELSE m2
    IN  alter_uvs(m3, b.uv_options)

\* PlaneMeshBuilder::build
PlaneMeshBuilder_build(b) ==
    LET face == Hexagon_center_aligned
        pos == IF b.center_aligned
               THEN "hex_to_center_aligned_world_pos"
               ELSE "hex_to_world_pos"
        offset == VecT(<<pos, b.pos, b.offset>>)
        m0 == IF b.inset_options.some
              THEN Face_inset(face, [kind |-> "Scale", flip |-> FALSE],
                              b.inset_options.keep_inner_face)
              ELSE MeshInfo_from(face)
        m1 == IF b.scale /= Unset THEN with_scale(m0, b.scale) ELSE m0
        m2 == IF b.rotation /= Unset THEN rotated(m1, b.rotation) ELSE m1
        m3 == with_offset(m2, offset)
    IN  alter_uvs(m3, b.uv_options)

\* MeshInfo::center_aligned_hexagonal_outline(layout, larger_layout): the band
\* between the corners of the hexagon and those of the larger hexagon
center_aligned_hexagonal_outline ==
    [vertices |-> [i \in 1..12 |->
                     IF i <= 6
                     THEN Vec(<<"center_aligned_corner", i - 1>>)
                     ELSE Vec(<<"larger_corner", i - 7>>)],
     normals  |-> [i \in 1..12 |-> Vec(<<"BASE_FACING">>)],
     uvs      |-> [i \in 1..12 |-> Vec(<<"wrap_uv", (i - 1) % 6>>)],
     indices  |-> connection_indices(6, FALSE)]

\* OutlineMeshBuilder::build
OutlineMeshBuilder_build(b) ==
    LET m0 == center_aligned_hexagonal_outline
        pos == IF b.center_aligned
               THEN "hex_to_center_aligned_world_pos"
               ELSE "hex_to_world_pos"
        offset == VecT(<<pos, b.pos, b.offset>>)
        m1 == IF b.scale /= Unset
              THEN [m0 EXCEPT !.vertices = ApplyOp(@, <<"S", b.scale>>)]
              ELSE m0
        m2 == IF b.rotation /= Unset THEN rotated(m1, b.rotation) ELSE m1
        m3 == with_offset(m2, offset)
    IN  alter_uvs(m3, b.uv_options)

(***************************************************************************)
(* Hex coordinates                                                         *)
(***************************************************************************)
Abs(n) == IF n < 0 THEN -n ELSE n

Max2(a, b) == IF a >= b THEN a ELSE b

\* The six edge neighbour offsets, in Direction order
NEIGHBORS_COORDS ==
    << <<1, -1>>, <<0, -1>>, <<-1, 0>>, <<-1, 1>>, <<0, 1>>, <<1, 0>> >>

all_neighbors(h) ==
    { <<h[1] + NEIGHBORS_COORDS[i][1], h[2] + NEIGHBORS_COORDS[i][2]>> : i \in 1..6 }

\* max(|dx|, |dy|, |dx + dy|)
unsigned_distance_to(a, b) ==
    Max2(Max2(Abs(a[1] - b[1]), Abs(a[2] - b[2])),
         Abs((a[1] - b[1]) + (a[2] - b[2])))

\* The coordinates on which the caller's cost function may be Some
Region == { h \in (0..MaxX) \X (0..1) : h[2] = 0 \/ h[1] <= 1 }

CostValues == {None} \cup { Some(c) : c \in 0..MaxCost }

\* cost(h) of the caller: None everywhere outside the tabulated coordinates
CostOf(h) == IF h \in DOMAIN cost THEN cost[h] ELSE None

(***************************************************************************)
(* Numbers of the layout arithmetic                                        *)
(*                                                                         *)
(* The layout multiplies and divides by sqrt(3), halves and thirds.  A     *)
(* number is kept exactly, as (a + b * sqrt(3)) / d with integers a, b and *)
(* d > 0 in lowest terms, so that equal numbers are equal records.         *)
(***************************************************************************)
\* (a + b * sqrt(3)) / d in lowest terms, d /= 0
Num(a, b, d) ==
    LET RECURSIVE Gcd(_, _)
        Gcd(m, n) == IF n = 0 THEN m ELSE Gcd(n, m % n)
        g == Gcd(Gcd(Abs(a), Abs(b)), Abs(d))
        s == IF d < 0 THEN -1 ELSE 1
    IN  [a |-> (s * a) \div g, b |-> (s * b) \div g, d |-> (s * d) \div g]

\* `n as f32`
as_f32(n) == Num(n, 0, 1)

\* crate::SQRT_3
SQRT_3 == Num(0, 1, 1)

FAdd(x, y) == Num(x.a * y.d + y.a * x.d, x.b * y.d + y.b * x.d, x.d * y.d)

FNeg(x) == [x EXCEPT !.a = -@, !.b = -@]

FMul(x, y) == Num(x.a * y.a + 3 * x.b * y.b, x.a * y.b + x.b * y.a, x.d * y.d)

\* x / y for y /= 0: 1 / (a + b sqrt 3) = (a - b sqrt 3) / (a^2 - 3 b^2)
FDiv(x, y) ==
    FMul(x, Num(y.d * y.a, -(y.d * y.b), y.a * y.a - 3 * y.b * y.b))

\* -1, 0 or 1 as x is negative, zero or positive
FSign(x) ==
    LET sq == x.a * x.a - 3 * x.b * x.b
    IN  IF x.a = 0 /\ x.b = 0 THEN 0
        ELSE IF x.a >= 0 /\ x.b >= 0 THEN 1
        ELSE IF x.a <= 0 /\ x.b <= 0 THEN -1
        ELSE IF x.a > 0 THEN (IF sq > 0 THEN 1 ELSE -1)
        ELSE (IF sq > 0 THEN -1 ELSE 1)

\* f32::round: the nearest integer, halves away from zero
FRound(x) ==
    LET Floor(p) ==
            CHOOSE n \in 0..(((Abs(p.a) + 2 * Abs(p.b)) \div p.d) + 1) :
                /\ FSign(FAdd(p, as_f32(-n))) >= 0
                /\ FSign(FAdd(p, as_f32(-(n + 1)))) < 0
    IN  IF FSign(x) >= 0
        THEN Floor(FAdd(x, Num(1, 0, 2)))
        ELSE -Floor(FAdd(FNeg(x), Num(1, 0, 2)))

\* glam::Vec2 is a pair <<x, y>>; its operators work component by component
Vec2_add(u, v) == <<FAdd(u[1], v[1]), FAdd(u[2], v[2])>>

Vec2_sub(u, v) == <<FAdd(u[1], FNeg(v[1])), FAdd(u[2], FNeg(v[2]))>>

Vec2_mul(u, v) == <<FMul(u[1], v[1]), FMul(u[2], v[2])>>

Vec2_div(u, v) == <<FDiv(u[1], v[1]), FDiv(u[2], v[2])>>

(***************************************************************************)
(* Direction (src/direction.rs)                                            *)
(*                                                                         *)
(* Angles in radians are counted in units of PI / 6, angles in degrees in  *)
(* degrees.                                                                *)
(***************************************************************************)
\* PI / 6.0
DIRECTION_ANGLE_OFFSET == 1

DIRECTION_ANGLE_OFFSET_DEGREES == 30

\* PI / 3.0
DIRECTION_ANGLE_RAD == 2

DIRECTION_ANGLE_DEGREES == 60

ALL_DIRECTIONS ==
    <<"TopRight", "Top", "TopLeft", "BottomLeft", "Bottom", "BottomRight">>

\* `self as usize`: the discriminant of the variant
as_usize(d) == CHOOSE i \in 0..5 : ALL_DIRECTIONS[i + 1] = d

POINTY_ANGLES_DEGREES ==
    <<0,
      DIRECTION_ANGLE_DEGREES,
      DIRECTION_ANGLE_DEGREES * 2,
      DIRECTION_ANGLE_DEGREES * 3,
      DIRECTION_ANGLE_DEGREES * 4,
      DIRECTION_ANGLE_DEGREES * 5>>

POINTY_ANGLES ==
    <<0,
      DIRECTION_ANGLE_RAD,
      DIRECTION_ANGLE_RAD * 2,
      DIRECTION_ANGLE_RAD * 3,
      DIRECTION_ANGLE_RAD * 4,
      DIRECTION_ANGLE_RAD * 5>>

angle_pointy(d) == POINTY_ANGLES[as_usize(d) + 1]

angle_pointy_degrees(d) == POINTY_ANGLES_DEGREES[as_usize(d) + 1]

angle_flat(d) == angle_pointy(d) + DIRECTION_ANGLE_OFFSET

\* Direction::angle: `orientation` is a HexOrientation
Direction_angle(d, orientation) == angle_pointy(d) - orientation.angle_offset

\* Mutation: the flat angles are the pointy angles
angle_flat_degrees_no_offset(d) == angle_pointy_degrees(d)

angle_flat_degrees(d) == angle_pointy_degrees(d) + DIRECTION_ANGLE_OFFSET_DEGREES

\* Mutation: the step clockwise from Top goes to TopLeft
clockwise_wrong_top(d) ==
    CASE d = "TopRight"    -> "BottomRight"
      [] d = "Top"         -> "TopLeft"
      [] d = "TopLeft"     -> "Top"
      [] d = "BottomLeft"  -> "TopLeft"
      [] d = "Bottom"      -> "BottomLeft"
      [] d = "BottomRight" -> "Bottom"

\* The direction one step clockwise: the previous one of ALL_DIRECTIONS
clockwise(d) ==
    CASE d = "TopRight"    -> "BottomRight"
      [] d = "Top"         -> "TopRight"
      [] d = "TopLeft"     -> "Top"
      [] d = "BottomLeft"  -> "TopLeft"
      [] d = "Bottom"      -> "BottomLeft"
      [] d = "BottomRight" -> "Bottom"

\* The direction one step counter clockwise: the next one of ALL_DIRECTIONS
counter_clockwise(d) ==
    CASE d = "TopRight"    -> "Top"
      [] d = "Top"         -> "TopLeft"
      [] d = "TopLeft"     -> "BottomLeft"
      [] d = "BottomLeft"  -> "Bottom"
      [] d = "Bottom"      -> "BottomRight"
      [] d = "BottomRight" -> "TopRight"

\* Mutation: the offset is reduced modulo 7 instead of 6
rotate_cw_modulo_7(d, offset) ==
    ALL_DIRECTIONS[((as_usize(d) + 12 - (offset % 7)) % 6) + 1]

\* d.rotate_cw(offset): offset steps of 60 degrees clockwise
rotate_cw(d, offset) ==
    ALL_DIRECTIONS[((as_usize(d) + 6 - (offset % 6)) % 6) + 1]

\* d.rotate_ccw(offset): offset steps of 60 degrees counter clockwise
rotate_ccw(d, offset) ==
    ALL_DIRECTIONS[((as_usize(d) + (offset % 6)) % 6) + 1]

\* DiagonalDirection::ALL_DIRECTIONS: the i-th diagonal lies between the
\* (i-1)-th and the i-th direction, 30 degrees clockwise of the i-th
ALL_DIAGONALS ==
    <<"Right", "TopRight", "TopLeft", "Left", "BottomLeft", "BottomRight">>

\* Direction::diagonal_cw: the diagonal next to d clockwise
diagonal_cw(d) == ALL_DIAGONALS[as_usize(d) + 1]

\* Mutation: diagonal_ccw answers the diagonal on the clockwise side
diagonal_ccw_same_side(d) == diagonal_cw(d)

\* Direction::diagonal_ccw: the diagonal next to d counter clockwise
diagonal_ccw(d) == ALL_DIAGONALS[((as_usize(d) + 1) % 6) + 1]

\* DiagonalDirection::direction_ccw: the direction next to g counter clockwise
direction_ccw(g) == ALL_DIRECTIONS[CHOOSE i \in 1..6 : ALL_DIAGONALS[i] = g]

\* DiagonalDirection::direction_cw: the direction next to g clockwise
direction_cw(g) == clockwise(direction_ccw(g))

(***************************************************************************)
(* HexOrientation and HexLayout (src/layout.rs)                            *)
(***************************************************************************)
HexOrientation_Pointy ==
    [name |-> "Pointy",
     angle_offset |-> DIRECTION_ANGLE_OFFSET,
     forward_matrix |-> <<SQRT_3, Num(0, 1, 2), as_f32(0), Num(3, 0, 2)>>,
     inverse_matrix |-> <<Num(0, 1, 3), Num(-1, 0, 3), as_f32(0), Num(2, 0, 3)>>]

HexOrientation_Flat ==
    [name |-> "Flat",
     angle_offset |-> 0,
     forward_matrix |-> <<Num(3, 0, 2), as_f32(0), Num(0, 1, 2), SQRT_3>>,
     inverse_matrix |-> <<Num(2, 0, 3), as_f32(0), Num(-1, 0, 3), Num(0, 1, 3)>>]

\* f32::cos of a multiple of PI / 6
cos(angle) ==
    LET COS == <<as_f32(1), Num(0, 1, 2), Num(1, 0, 2), as_f32(0),
                 Num(-1, 0, 2), Num(0, -1, 2), as_f32(-1), Num(0, -1, 2),
                 Num(-1, 0, 2), as_f32(0), Num(1, 0, 2), Num(0, 1, 2)>>
    IN  COS[(angle % 12) + 1]

\* f32::sin: sin(x) = cos(x - PI / 2)
sin(angle) == cos(angle + 9)

\* Hex::round: every cube axis is rounded, then the axis with the largest
\* rounding error is recomputed from the other two
Hex_round(p) ==
    LET x == p[1]
        y == p[2]
        z == FNeg(FAdd(x, y))
        rx == FRound(x)
        ry == FRound(y)
        rz == FRound(z)
        Diff(v, r) == LET e == FAdd(v, as_f32(-r))
                      IN  IF FSign(e) < 0 THEN FNeg(e) ELSE e
        Less(u, v) == FSign(FAdd(u, FNeg(v))) < 0
        x_diff == Diff(x, rx)
        y_diff == Diff(y, ry)
        z_diff == Diff(z, rz)
    IN  IF Less(y_diff, x_diff) /\ Less(z_diff, x_diff) THEN <<-ry - rz, ry>>
        ELSE IF Less(z_diff, y_diff) THEN <<rx, -rx - rz>>
        ELSE <<rx, ry>>

\* HexLayout::axis_scale
axis_scale(l) ==
    LET x == IF l.invert_x THEN as_f32(-1) ELSE as_f32(1)
        y == IF l.invert_y THEN as_f32(1) ELSE as_f32(-1)
    IN  <<x, y>>

\* Mutation: origin is added before the scaling by hex_size and axis_scale
hex_to_world_pos_origin_first(l, hex) ==
    LET matrix == l.orientation.forward_matrix
        x == as_f32(hex[1])
        y == as_f32(hex[2])
    IN  Vec2_mul(Vec2_mul(Vec2_add(<<FAdd(FMul(matrix[1], x), FMul(matrix[2], y)),
                                     FAdd(FMul(matrix[3], x), FMul(matrix[4], y))>>,
                                   l.origin),
                          l.hex_size),
                 axis_scale(l))

\* HexLayout::hex_to_world_pos
hex_to_world_pos(l, hex) ==
    LET matrix == l.orientation.forward_matrix
        x == as_f32(hex[1])
        y == as_f32(hex[2])
    IN  Vec2_add(Vec2_mul(Vec2_mul(<<FAdd(FMul(matrix[1], x), FMul(matrix[2], y)),
                                     FAdd(FMul(matrix[3], x), FMul(matrix[4], y))>>,
                                   l.hex_size),
                          axis_scale(l)),
                 l.origin)

\* Mutation: the point is not multiplied by axis_scale on the way back
world_pos_to_hex_no_axis_scale(l, pos) ==
    LET matrix == l.orientation.inverse_matrix
        point == Vec2_div(Vec2_sub(pos, l.origin), l.hex_size)
    IN  Hex_round(<<FAdd(FMul(matrix[1], point[1]), FMul(matrix[2], point[2])),
                    FAdd(FMul(matrix[3], point[1]), FMul(matrix[4], point[2]))>>)

\* HexLayout::world_pos_to_hex
world_pos_to_hex(l, pos) ==
    LET matrix == l.orientation.inverse_matrix
        point == Vec2_div(Vec2_mul(Vec2_sub(pos, l.origin), axis_scale(l)), l.hex_size)
    IN  Hex_round(<<FAdd(FMul(matrix[1], point[1]), FMul(matrix[2], point[2])),
                    FAdd(FMul(matrix[3], point[1]), FMul(matrix[4], point[2]))>>)

\* Mutation: the corners use the angle of the direction without angle_offset
hex_corners_no_offset(l, hex) ==
    LET center == hex_to_world_pos(l, hex)
    IN  [i \in 1..6 |->
            LET angle == angle_pointy(ALL_DIRECTIONS[i])
            IN  Vec2_add(center, <<FMul(l.hex_size[1], cos(angle)),
                                   FMul(l.hex_size[2], sin(angle))>>)]

\* HexLayout::hex_corners
hex_corners(l, hex) ==
    LET center == hex_to_world_pos(l, hex)
    IN  [i \in 1..6 |->
            LET angle == angle_pointy(ALL_DIRECTIONS[i]) + l.orientation.angle_offset
            IN  Vec2_add(center, <<FMul(l.hex_size[1], cos(angle)),
                                   FMul(l.hex_size[2], sin(angle))>>)]

(***************************************************************************)
(* Hex enumerations (src/hex.rs) and range_fov                             *)
(***************************************************************************)
\* Mutation: the walk around the ring leaves out its last side
ring_five_sides(center, range) ==
    IF range = 0 THEN <<center>>
    ELSE [k \in 1..(5 * range) |->
            LET side == (k - 1) \div range
                corner == NEIGHBORS_COORDS[((4 + side) % 6) + 1]
                along == NEIGHBORS_COORDS[side + 1]
            IN  <<center[1] + corner[1] * range + along[1] * ((k - 1) % range),
                  center[2] + corner[2] * range + along[2] * ((k - 1) % range)>>]

\* Hex::ring: the walk starts `range` steps from center in the fifth
\* direction and takes `range` steps in each of the six directions in turn;
\* `corner` is where the walk is after `side` sides
ring(center, range) ==
    IF range = 0 THEN <<center>>
    ELSE [k \in 1..(6 * range) |->
            LET side == (k - 1) \div range
                corner == NEIGHBORS_COORDS[((4 + side) % 6) + 1]
                along == NEIGHBORS_COORDS[side + 1]
            IN  <<center[1] + corner[1] * range + along[1] * ((k - 1) % range),
                  center[2] + corner[2] * range + along[2] * ((k - 1) % range)>>]

\* Hex::spiral_range(0..=range): the rings of radius 0 to range, one after
\* the other
RECURSIVE spiral_range(_, _)
spiral_range(center, range) ==
    IF range = 0 THEN ring(center, 0)
    ELSE spiral_range(center, range - 1) \o ring(center, range)

\* Hex::line_to: distance + 1 points interpolated from a to b and rounded
line_to(a, b) ==
    LET distance == unsigned_distance_to(a, b)
        dist == Max2(distance, 1)
    IN  [k \in 1..(distance + 1) |->
            Hex_round(<<Num(a[1] * (dist - (k - 1)) + b[1] * (k - 1), 0, dist),
                        Num(a[2] * (dist - (k - 1)) + b[2] * (k - 1), 0, dist)>>)]

\* Mutation: the lines are drawn to the next smaller ring
range_fov_short_lines(coord, range, blocked) ==
    UNION { LET line == line_to(coord, ring(coord, Max2(range, 1) - 1)[t])
            IN  { line[k] : k \in { j \in 1..Len(line) :
                                       \A i \in 1..j : line[i] \notin blocked } }
            : t \in 1..Len(ring(coord, Max2(range, 1) - 1)) }

\* range_fov: one line to every coordinate of the ring at distance `range`,
\* each walked up to its first blocking coordinate; blocking(h) is
\* h \in blocked
range_fov(coord, range, blocked) ==
    UNION { LET line == line_to(coord, ring(coord, range)[t])
            IN  { line[k] : k \in { j \in 1..Len(line) :
                                       \A i \in 1..j : line[i] \notin blocked } }
            : t \in 1..Len(ring(coord, range)) }

\* No HexLayout method has been called
NoCall ==
    [fn |-> "none", hex |-> <<0, 0>>, pos |-> <<as_f32(0), as_f32(0)>>,
     out |-> <<0, 0>>, corners |-> << >>]

\* A value in a chain of Direction calls: a variant of the Direction or of the
\* DiagonalDirection enum (num = 0), or an f32 (num) in the unit `name`
Value(enum, name, num) == [enum |-> enum, name |-> name, num |-> num]

\* No layout is in use
LayoutIdle ==
    /\ layout = [orientation |-> HexOrientation_Pointy,
                 origin |-> <<as_f32(0), as_f32(0)>>,
                 hex_size |-> <<as_f32(1), as_f32(1)>>,
                 invert_x |-> FALSE, invert_y |-> FALSE]
    /\ call = NoCall

\* No direction method is called
DirectionIdle ==
    /\ dir = Value("Direction", "TopRight", 0)
    /\ turns = 0
    /\ calls = << >>
    /\ chain = << >>

\* The layout and direction variables while the other parts of the crate run
GeometryIdle == LayoutIdle /\ DirectionIdle

(***************************************************************************)
(* a_star                                                                  *)
(***************************************************************************)
\* Mutation: the distance to start is left out of the priority
heuristic_zero(h) == 0

\* let heuristic = |h: Hex| h.unsigned_distance_to(start);
heuristic(h) == unsigned_distance_to(h, start)

Node(h, c) == [coord |-> h, cost |-> c]

\* Node's Ord compares the cost alone, so the heap is free to return any node
\* of least cost.  tie = "any" leaves the choice open; the other values fix
\* one consistent order among the nodes of equal cost.
TieOrders == {"xy", "yx", "-xy", "-yx"}

TieKey(t, h) ==
    CASE t = "xy"  -> <<h[1], h[2]>>
      [] t = "yx"  -> <<h[2], h[1]>>
      [] t = "-xy" -> <<-h[1], -h[2]>>
      [] OTHER     -> <<-h[2], -h[1]>>

LexLeq(a, b) == a[1] < b[1] \/ (a[1] = b[1] /\ a[2] <= b[2])

\* Mutation: pop answers any node of the heap
PopCandidates_any_node == open

\* BinaryHeap::pop under Node's reversed Ord: a node of least cost
PopCandidates ==
    LET least == { n \in open : \A m \in open : n.cost <= m.cost }
    IN  IF tie = "any"
        THEN least
        ELSE { n \in least :
                 \A m \in least : LexLeq(TieKey(tie, n.coord), TieKey(tie, m.coord)) }

RECURSIVE Successors(_, _)
\* iter::successors(Some(end), |c| came_from.get(c)), collected
Successors(cf, h) ==
    IF h \in DOMAIN cf THEN <<h>> \o Successors(cf, cf[h]) ELSE <<h>>

Reverse(s) == [i \in 1..Len(s) |-> s[Len(s) + 1 - i]]

\* Mutation: the collected walk is returned without path.reverse()
reconstruct_path_unreversed(cf, e) == Successors(cf, e)

reconstruct_path(cf, e) == Reverse(Successors(cf, e))

\* Mutation: the cost of the node the neighbour is reached from is left out
neighbor_cost_from_zero(node, nb) == CostOf(nb).val + heuristic(nb)

\* cost + heuristic of a neighbour reached from node
neighbor_cost(node, nb) == costs[node.coord] + CostOf(nb).val + heuristic(nb)

\* The condition of line 113
ShouldPush(node, nb) ==
    nb \notin DOMAIN costs \/ costs[nb] > neighbor_cost(node, nb)

\* Mutation: line 111 reads a None cost as 0 instead of skipping the neighbour
Improved_NoExclusion(node) ==
    { nb \in all_neighbors(node.coord) \cap DOMAIN cost : ShouldPush(node, nb) }

\* The neighbours of node that pass lines 111 and 113
Improved(node) ==
    { nb \in all_neighbors(node.coord) : CostOf(nb).some /\ ShouldPush(node, nb) }

AStarInit ==
    /\ start \in Region
    /\ goal \in Region
    /\ cost \in [Region -> CostValues]
    /\ open = {}
    /\ costs = << >>
    /\ came_from = << >>
    /\ pc = "entry"
    /\ result = NoPath
    /\ popped = Node(start, 0)
    /\ tie = "any"

\* Mutation: a start that the cost function excludes ends the search
AStarBegin_checks_start ==
    /\ pc = "entry"
    /\ open' = IF CostOf(start).some THEN { Node(start, heuristic(start)) } ELSE {}
    /\ costs' = (start :> heuristic(start))
    /\ came_from' = << >>
    /\ pc' = "loop"
    /\ UNCHANGED <<start, goal, cost, result, popped, tie, builder, mesh, layoutVars, directionVars>>

\* lines 94-104: the start node is given a cost entry and pushed
AStarBegin ==
    /\ pc = "entry"
    /\ open' = { Node(start, heuristic(start)) }
    /\ costs' = (start :> heuristic(start))
    /\ came_from' = << >>
    /\ pc' = "loop"
    /\ UNCHANGED <<start, goal, cost, result, popped, tie, builder, mesh, layoutVars, directionVars>>

\* while let Some(node) = open.pop() { if node.coord == end { return Some(..) } .. }
AStarReturn ==
    /\ pc = "loop"
    /\ \E node \in PopCandidates :
        /\ node.coord = goal
        /\ open' = open \ {node}
        /\ popped' = node
        /\ result' = Some(reconstruct_path(came_from, goal))
    /\ pc' = "done"
    /\ UNCHANGED <<start, goal, cost, costs, came_from, tie, builder, mesh, layoutVars, directionVars>>

\* one iteration of the loop: pop a node, visit its six neighbours
AStarExpand ==
    /\ pc = "loop"
    /\ \E node \in PopCandidates :
        /\ node.coord /= goal
        /\ popped' = node
        /\ LET imp == Improved(node)
           IN  /\ came_from' = [h \in DOMAIN came_from \cup imp |->
                                   IF h \in imp THEN node.coord ELSE came_from[h]]
               /\ costs' = [h \in DOMAIN costs \cup imp |->
                                   IF h \in imp THEN neighbor_cost(node, h) ELSE costs[h]]
               /\ open' = (open \ {node}) \cup
                              { Node(h, neighbor_cost(node, h)) : h \in imp }
    /\ UNCHANGED <<start, goal, cost, pc, result, tie, builder, mesh, layoutVars, directionVars>>

\* Mutation: the fall-through of line 123 reconstructs a path instead of None
AStarExhausted_ReturnsPath ==
    /\ pc = "loop"
    /\ open = {}
    /\ pc' = "done"
    /\ result' = Some(reconstruct_path(came_from, goal))
    /\ UNCHANGED <<start, goal, cost, open, costs, came_from, popped, tie, builder, mesh, layoutVars, directionVars>>

\* open.pop() is None: the loop ends and a_star returns None
AStarExhausted ==
    /\ pc = "loop"
    /\ open = {}
    /\ pc' = "done"
    /\ result' = NoPath
    /\ UNCHANGED <<start, goal, cost, open, costs, came_from, popped, tie, builder, mesh, layoutVars, directionVars>>

\* Every coordinate at distance <= r of c
Disc(c, r) ==
    { h \in ((c[1] - r)..(c[1] + r)) \X ((c[2] - r)..(c[2] + r)) :
        unsigned_distance_to(h, c) <= r }

\* a_star(start, end, |_| Some(0)): the doc example of lines 44-58 without
\* forbidden coordinates.  The table of the cost function extends one ring
\* past the farthest goal.
UniformInit ==
    /\ start = <<0, 0>>
    /\ goal \in Disc(start, MaxDist)
    /\ cost = [h \in Disc(start, MaxDist + 1) |-> Some(0)]
    /\ open = {}
    /\ costs = << >>
    /\ came_from = << >>
    /\ pc = "entry"
    /\ result = NoPath
    /\ popped = Node(start, 0)
    /\ tie \in TieOrders
    /\ builder = [kind |-> "none", stage |-> "none"]
    /\ mesh = MeshInfo_default
    /\ GeometryIdle

\* The steps of a_star; with every coordinate passable the open set holds a
\* neighbour of each expanded coordinate, so the loop cannot run out of nodes
UniformNext ==
    \/ AStarBegin
    \/ AStarReturn
    \/ AStarExpand

MeshIdle ==
    /\ builder = [kind |-> "none", stage |-> "none"]
    /\ mesh = MeshInfo_default

Init == AStarInit /\ MeshIdle /\ GeometryIdle

Next ==
    \/ AStarBegin
    \/ AStarReturn
    \/ AStarExpand
    \/ AStarExhausted

Spec == Init /\ [][Next]_vars

UniformSpec == UniformInit /\ [][UniformNext]_vars

(***************************************************************************)
(* The builders as a state machine: a builder is created, configured by    *)
(* its chained methods and consumed by build                               *)
(***************************************************************************)
\* Hex positions given to `at`
Hexes == { <<0, 0>>, <<1, -1>> }

NoBuilder == [kind |-> "none", stage |-> "none"]

NoInset == [some |-> FALSE, keep_inner_face |-> FALSE]

Configuring(kind) == builder.kind = kind /\ builder.stage = "config"

AStarIdle ==
    /\ start = <<0, 0>>
    /\ goal = <<0, 0>>
    /\ cost = << >>
    /\ open = {}
    /\ costs = << >>
    /\ came_from = << >>
    /\ pc = "idle"
    /\ result = NoPath
    /\ popped = Node(<<0, 0>>, 0)
    /\ tie = "any"

MeshInit ==
    /\ builder = NoBuilder
    /\ mesh = MeshInfo_default
    /\ AStarIdle
    /\ GeometryIdle

\* ColumnMeshBuilder::new(layout, height)
ColumnMeshBuilder_new ==
    /\ builder.stage /= "config"
    /\ builder' = [kind |-> "column", stage |-> "config", pos |-> <<0, 0>>,
                   facing |-> Unset, subdivisions |-> None, offset |-> Unset,
                   top_face |-> TRUE, bottom_face |-> TRUE]
    /\ mesh' = MeshInfo_default
    /\ UNCHANGED <<astarVars, layoutVars, directionVars>>

ColumnMeshBuilder_at ==
    /\ Configuring("column")
    /\ \E pos \in Hexes : builder' = [builder EXCEPT !.pos = pos]
    /\ UNCHANGED <<mesh, astarVars, layoutVars, directionVars>>

\* ColumnMeshBuilder::facing stores the vector as it is given
ColumnMeshBuilder_facing ==
    /\ Configuring("column")
    /\ \E facing \in Facings : builder' = [builder EXCEPT !.facing = facing]
    /\ UNCHANGED <<mesh, astarVars, layoutVars, directionVars>>

ColumnMeshBuilder_with_offset ==
    /\ Configuring("column")
    /\ builder' = [builder EXCEPT !.offset = "offset"]
    /\ UNCHANGED <<mesh, astarVars, layoutVars, directionVars>>

ColumnMeshBuilder_with_subdivisions ==
    /\ Configuring("column")
    /\ \E n \in 0..MaxSubdivisions :
         builder' = [builder EXCEPT !.subdivisions = Some(n)]
    /\ UNCHANGED <<mesh, astarVars, layoutVars, directionVars>>

ColumnMeshBuilder_without_bottom_face ==
    /\ Configuring("column")
    /\ builder' = [builder EXCEPT !.bottom_face = FALSE]
    /\ UNCHANGED <<mesh, astarVars, layoutVars, directionVars>>

ColumnMeshBuilder_without_top_face ==
    /\ Configuring("column")
    /\ builder' = [builder EXCEPT !.top_face = FALSE]
    /\ UNCHANGED <<mesh, astarVars, layoutVars, directionVars>>

\* ColumnMeshBuilder::build consumes the builder
ColumnBuild ==
    /\ Configuring("column")
    /\ \E glam_assert \in BOOLEAN :
         IF builder.facing /= Unset /\ normalize_panics(builder.facing, glam_assert)
         THEN /\ builder' = [builder EXCEPT !.stage = "panicked"]
              /\ mesh' = mesh
         ELSE /\ mesh' = ColumnMeshBuilder_build(builder)
              /\ builder' = [builder EXCEPT !.stage = "built"]
    /\ UNCHANGED <<astarVars, layoutVars, directionVars>>

\* PlaneMeshBuilder::new(layout)
PlaneMeshBuilder_new ==
    /\ builder.stage /= "config"
    /\ builder' = [kind |-> "plane", stage |-> "config", pos |-> <<0, 0>>,
                   rotation |-> Unset, offset |-> Unset, scale |-> Unset,
                   uv_options |-> "UVOptions::new", center_aligned |-> FALSE,
                   inset_options |-> NoInset]
    /\ mesh' = MeshInfo_default
    /\ UNCHANGED <<astarVars, layoutVars, directionVars>>

PlaneMeshBuilder_at ==
    /\ Configuring("plane")
    /\ \E pos \in Hexes : builder' = [builder EXCEPT !.pos = pos]
    /\ UNCHANGED <<mesh, astarVars, layoutVars, directionVars>>

\* self.rotation = Some(Quat::from_rotation_arc(BASE_FACING, facing.normalize()))
PlaneMeshBuilder_facing ==
    /\ Configuring("plane")
    /\ \E facing \in Facings, glam_assert \in BOOLEAN :
         builder' = IF normalize_panics(facing, glam_assert)
                    THEN [builder EXCEPT !.stage = "panicked"]
                    ELSE [builder EXCEPT !.rotation = from_rotation_arc(normalize(facing))]
    /\ UNCHANGED <<mesh, astarVars, layoutVars, directionVars>>

PlaneMeshBuilder_with_rotation ==
    /\ Configuring("plane")
    /\ builder' = [builder EXCEPT !.rotation = "rotation"]
    /\ UNCHANGED <<mesh, astarVars, layoutVars, directionVars>>

PlaneMeshBuilder_with_offset ==
    /\ Configuring("plane")
    /\ builder' = [builder EXCEPT !.offset = "offset"]
    /\ UNCHANGED <<mesh, astarVars, layoutVars, directionVars>>

PlaneMeshBuilder_with_scale ==
    /\ Configuring("plane")
    /\ builder' = [builder EXCEPT !.scale = "scale"]
    /\ UNCHANGED <<mesh, astarVars, layoutVars, directionVars>>

PlaneMeshBuilder_with_uv_options ==
    /\ Configuring("plane")
    /\ builder' = [builder EXCEPT !.uv_options = "uv_options"]
    /\ UNCHANGED <<mesh, astarVars, layoutVars, directionVars>>

PlaneMeshBuilder_center_aligned ==
    /\ Configuring("plane")
    /\ builder' = [builder EXCEPT !.center_aligned = TRUE]
    /\ UNCHANGED <<mesh, astarVars, layoutVars, directionVars>>

PlaneMeshBuilder_with_inset_face ==
    /\ Configuring("plane")
    /\ \E keep \in BOOLEAN :
         builder' = [builder EXCEPT
                        !.inset_options = [some |-> TRUE, keep_inner_face |-> keep]]
    /\ UNCHANGED <<mesh, astarVars, layoutVars, directionVars>>

\* PlaneMeshBuilder::build consumes the builder
PlaneBuild ==
    /\ Configuring("plane")
    /\ mesh' = PlaneMeshBuilder_build(builder)
    /\ builder' = [builder EXCEPT !.stage = "built"]
    /\ UNCHANGED <<astarVars, layoutVars, directionVars>>

\* OutlineMeshBuilder::new(layout)
OutlineMeshBuilder_new ==
    /\ builder.stage /= "config"
    /\ builder' = [kind |-> "outline", stage |-> "config", pos |-> <<0, 0>>,
                   rotation |-> Unset, offset |-> Unset, scale |-> Unset,
                   uv_options |-> "UVOptions::new", center_aligned |-> FALSE]
    /\ mesh' = MeshInfo_default
    /\ UNCHANGED <<astarVars, layoutVars, directionVars>>

OutlineMeshBuilder_at ==
    /\ Configuring("outline")
    /\ \E pos \in Hexes : builder' = [builder EXCEPT !.pos = pos]
    /\ UNCHANGED <<mesh, astarVars, layoutVars, directionVars>>

\* self.rotation = Some(Quat::from_rotation_arc(BASE_FACING, facing.normalize()))
OutlineMeshBuilder_facing ==
    /\ Configuring("outline")
    /\ \E facing \in Facings, glam_assert \in BOOLEAN :
         builder' = IF normalize_panics(facing, glam_assert)
                    THEN [builder EXCEPT !.stage = "panicked"]
                    ELSE [builder EXCEPT !.rotation = from_rotation_arc(normalize(facing))]
    /\ UNCHANGED <<mesh, astarVars, layoutVars, directionVars>>

OutlineMeshBuilder_with_rotation ==
    /\ Configuring("outline")
    /\ builder' = [builder EXCEPT !.rotation = "rotation"]
    /\ UNCHANGED <<mesh, astarVars, layoutVars, directionVars>>

OutlineMeshBuilder_with_offset ==
    /\ Configuring("outline")
    /\ builder' = [builder EXCEPT !.offset = "offset"]
    /\ UNCHANGED <<mesh, astarVars, layoutVars, directionVars>>

OutlineMeshBuilder_with_scale ==
    /\ Configuring("outline")
    /\ builder' = [builder EXCEPT !.scale = "scale"]
    /\ UNCHANGED <<mesh, astarVars, layoutVars, directionVars>>

OutlineMeshBuilder_with_uv_options ==
    /\ Configuring("outline")
    /\ builder' = [builder EXCEPT !.uv_options = "uv_options"]
    /\ UNCHANGED <<mesh, astarVars, layoutVars, directionVars>>

OutlineMeshBuilder_center_aligned ==
    /\ Configuring("outline")
    /\ builder' = [builder EXCEPT !.center_aligned = TRUE]
    /\ UNCHANGED <<mesh, astarVars, layoutVars, directionVars>>

\* OutlineMeshBuilder::build consumes the builder
OutlineBuild ==
    /\ Configuring("outline")
    /\ mesh' = OutlineMeshBuilder_build(builder)
    /\ builder' = [builder EXCEPT !.stage = "built"]
    /\ UNCHANGED <<astarVars, layoutVars, directionVars>>

\* The faces inset directly: a side quad and the centre aligned hexagon
FaceOf(shape) ==
    IF shape = "Quad"
    THEN Quad_from_bottom(Vec(<<"corner", 0, <<0, 0>>>>), Vec(<<"corner", 1, <<0, 0>>>>),
                          Vec(<<"side", 0, <<0, 0>>>>), 1)
    ELSE Hexagon_center_aligned

\* face.inset(mode, keep_inner_face) on a Quad or a Hexagon
FaceInset ==
    /\ builder.stage /= "config"
    /\ \E shape \in {"Quad", "Hexagon"}, mode \in InsetModes, keep \in BOOLEAN :
         /\ builder' = [kind |-> "inset", stage |-> "built", shape |-> shape,
                        mode |-> mode, keep_inner_face |-> keep]
         /\ mesh' = Face_inset(FaceOf(shape), mode, keep)
    /\ UNCHANGED <<astarVars, layoutVars, directionVars>>

MeshNext ==
    \/ ColumnMeshBuilder_new
    \/ ColumnMeshBuilder_at
    \/ ColumnMeshBuilder_facing
    \/ ColumnMeshBuilder_with_offset
    \/ ColumnMeshBuilder_with_subdivisions
    \/ ColumnMeshBuilder_without_bottom_face
    \/ ColumnMeshBuilder_without_top_face
    \/ ColumnBuild
    \/ PlaneMeshBuilder_new
    \/ PlaneMeshBuilder_at
    \/ PlaneMeshBuilder_facing
    \/ PlaneMeshBuilder_with_rotation
    \/ PlaneMeshBuilder_with_offset
    \/ PlaneMeshBuilder_with_scale
    \/ PlaneMeshBuilder_with_uv_options
    \/ PlaneMeshBuilder_center_aligned
    \/ PlaneMeshBuilder_with_inset_face
    \/ PlaneBuild
    \/ OutlineMeshBuilder_new
    \/ OutlineMeshBuilder_at
    \/ OutlineMeshBuilder_facing
    \/ OutlineMeshBuilder_with_rotation
    \/ OutlineMeshBuilder_with_offset
    \/ OutlineMeshBuilder_with_scale
    \/ OutlineMeshBuilder_with_uv_options
    \/ OutlineMeshBuilder_center_aligned
    \/ OutlineBuild
    \/ FaceInset

MeshSpec == MeshInit /\ [][MeshNext]_vars

(***************************************************************************)
(* HexLayout as a state machine: a layout is constructed, then a method is *)
(* called on a hex, and world_pos_to_hex on the position answered.  The    *)
(* methods take &self and leave the layout as it is, so that a call made   *)
(* after another one answers what it answers as the first call.            *)
(***************************************************************************)
\* The hexes given to the methods have coordinates of at most this magnitude
MaxCoord == 2

LayoutHexes == (-MaxCoord..MaxCoord) \X (-MaxCoord..MaxCoord)

\* The layouts: both orientations, every inversion, origins at and off zero,
\* hex sizes that are equal, unequal, fractional and negative
Layouts ==
    [orientation : {HexOrientation_Pointy, HexOrientation_Flat},
     origin      : { <<as_f32(0), as_f32(0)>>, <<as_f32(1), as_f32(2)>>,
                     <<Num(-7, 0, 2), as_f32(10)>> },
     hex_size    : { <<as_f32(1), as_f32(1)>>, <<as_f32(10), as_f32(10)>>,
                     <<Num(3, 0, 2), as_f32(-2)>>, <<as_f32(2), Num(1, 0, 3)>> },
     invert_x    : BOOLEAN,
     invert_y    : BOOLEAN]

LayoutInit ==
    /\ layout \in Layouts
    /\ call = NoCall
    /\ AStarIdle
    /\ MeshIdle
    /\ DirectionIdle

\* layout.hex_to_world_pos(hex)
HexLayout_hex_to_world_pos ==
    /\ call.fn = "none"
    /\ \E hex \in LayoutHexes :
         call' = [NoCall EXCEPT !.fn = "hex_to_world_pos", !.hex = hex,
                                !.pos = hex_to_world_pos(layout, hex)]
    /\ UNCHANGED <<layout, astarVars, meshVars, directionVars>>

\* layout.world_pos_to_hex(pos) on the position hex_to_world_pos answered
HexLayout_world_pos_to_hex ==
    /\ call.fn = "hex_to_world_pos"
    /\ call' = [call EXCEPT !.fn = "world_pos_to_hex",
                            !.out = world_pos_to_hex(layout, call.pos)]
    /\ UNCHANGED <<layout, astarVars, meshVars, directionVars>>

\* layout.hex_corners(hex)
HexLayout_hex_corners ==
    /\ call.fn = "none"
    /\ \E hex \in LayoutHexes :
         call' = [NoCall EXCEPT !.fn = "hex_corners", !.hex = hex,
                                !.corners = hex_corners(layout, hex)]
    /\ UNCHANGED <<layout, astarVars, meshVars, directionVars>>

LayoutNext ==
    \/ HexLayout_hex_to_world_pos
    \/ HexLayout_world_pos_to_hex
    \/ HexLayout_hex_corners

LayoutSpec == LayoutInit /\ [][LayoutNext]_vars

(***************************************************************************)
(* Rings and fields of view: one call of ring or of range_fov on a center  *)
(* and a radius; `call` holds the arguments and the answer                 *)
(***************************************************************************)
\* The largest radius of a ring and of a field of view
MaxRange == 3

HexInit ==
    /\ call \in [fn : {"none"}, hex : LayoutHexes, range : 0..MaxRange,
                 blocked : {{}}, out : {<< >>}]
    /\ layout = [orientation |-> HexOrientation_Pointy,
                 origin |-> <<as_f32(0), as_f32(0)>>,
                 hex_size |-> <<as_f32(1), as_f32(1)>>,
                 invert_x |-> FALSE, invert_y |-> FALSE]
    /\ AStarIdle
    /\ MeshIdle
    /\ DirectionIdle

\* call.hex.ring(call.range).collect()
Hex_ring ==
    /\ call.fn = "none"
    /\ call' = [call EXCEPT !.fn = "ring", !.out = ring(call.hex, call.range)]
    /\ UNCHANGED <<layout, astarVars, meshVars, directionVars>>

\* range_fov(call.hex, call.range, blocking): nothing blocks, or one
\* neighbour of the center, or the center itself
RangeFov ==
    /\ call.fn = "none"
    /\ \E blocked \in { {}, {call.hex}, {<<call.hex[1] + 1, call.hex[2]>>} } :
         call' = [call EXCEPT !.fn = "range_fov", !.blocked = blocked,
                              !.out = range_fov(call.hex, call.range, blocked)]
    /\ UNCHANGED <<layout, astarVars, meshVars, directionVars>>

HexNext ==
    \/ Hex_ring
    \/ RangeFov

HexSpec == HexInit /\ [][HexNext]_vars

(***************************************************************************)
(* Direction and DiagonalDirection as a state machine: methods are called  *)
(* in a chain, each on the value the previous one answered                 *)
(***************************************************************************)
\* The largest `offset` given to rotate_cw and rotate_ccw
MaxTurns == 12

\* The calls of a chain, and the calls of a chain that repeats one method
MaxCalls == 2

MaxSteps == 6

DirectionInit ==
    /\ dir \in { Value("Direction", ALL_DIRECTIONS[i], 0) : i \in 1..6 } \cup
               { Value("DiagonalDirection", ALL_DIAGONALS[i], 0) : i \in 1..6 }
    /\ turns \in 0..MaxTurns
    /\ calls = << >>
    /\ chain = <<dir>>
    /\ AStarIdle
    /\ MeshIdle
    /\ LayoutIdle

\* The value the next method is called on
Receiver == chain[Len(chain)]

\* Method fn of `enum` is called on the receiver and answers `out`
Call(enum, fn, out) ==
    /\ Receiver.enum = enum
    /\ \/ Len(calls) < MaxCalls
       \/ Len(calls) < MaxSteps /\ \A i \in 1..Len(calls) : calls[i] = fn
    /\ calls' = Append(calls, fn)
    /\ chain' = Append(chain, out)
    /\ UNCHANGED <<dir, turns, astarVars, meshVars, layoutVars>>

Direction_rotate_cw ==
    Call("Direction", "rotate_cw",
         Value("Direction", rotate_cw(Receiver.name, turns), 0))

Direction_rotate_ccw ==
    Call("Direction", "rotate_ccw",
         Value("Direction", rotate_ccw(Receiver.name, turns), 0))

Direction_clockwise ==
    Call("Direction", "clockwise", Value("Direction", clockwise(Receiver.name), 0))

Direction_counter_clockwise ==
    Call("Direction", "counter_clockwise",
         Value("Direction", counter_clockwise(Receiver.name), 0))

Direction_diagonal_ccw ==
    Call("Direction", "diagonal_ccw",
         Value("DiagonalDirection", diagonal_ccw(Receiver.name), 0))

Direction_diagonal_cw ==
    Call("Direction", "diagonal_cw",
         Value("DiagonalDirection", diagonal_cw(Receiver.name), 0))

Direction_angle_pointy_degrees ==
    Call("Direction", "angle_pointy_degrees",
         Value("f32", "degrees", angle_pointy_degrees(Receiver.name)))

Direction_angle_flat_degrees ==
    Call("Direction", "angle_flat_degrees",
         Value("f32", "degrees", angle_flat_degrees(Receiver.name)))

\* Direction::angle, given HexOrientation::flat() or HexOrientation::pointy()
Direction_angle_call ==
    \E orientation \in {HexOrientation_Flat, HexOrientation_Pointy} :
        Call("Direction",
             IF orientation.name = "Flat" THEN "angle(&flat)" ELSE "angle(&pointy)",
             Value("f32", "radians", Direction_angle(Receiver.name, orientation)))

DiagonalDirection_direction_ccw ==
    Call("DiagonalDirection", "direction_ccw",
         Value("Direction", direction_ccw(Receiver.name), 0))

DiagonalDirection_direction_cw ==
    Call("DiagonalDirection", "direction_cw",
         Value("Direction", direction_cw(Receiver.name), 0))

DirectionNext ==
    \/ Direction_rotate_cw
    \/ Direction_rotate_ccw
    \/ Direction_clockwise
    \/ Direction_counter_clockwise
    \/ Direction_diagonal_ccw
    \/ Direction_diagonal_cw
    \/ Direction_angle_pointy_degrees
    \/ Direction_angle_flat_degrees
    \/ Direction_angle_call
    \/ DiagonalDirection_direction_ccw
    \/ DiagonalDirection_direction_cw

DirectionSpec == DirectionInit /\ [][DirectionNext]_vars

(***************************************************************************)
(* Claims about the meshes                                                 *)
(***************************************************************************)
Built == builder.stage = "built"

BuiltBy(kind) == Built /\ builder.kind = kind

\* C7: in every mesh returned by ColumnMeshBuilder::build,
\* PlaneMeshBuilder::build and Face::inset, vertices, normals and uvs have
\* the same length, the number of indices is a multiple of 3 and every index
\* is less than the number of vertices.
C7_MeshConsistent ==
    Built =>
        /\ Len(mesh.normals) = Len(mesh.vertices)
        /\ Len(mesh.uvs) = Len(mesh.vertices)
        /\ Len(mesh.indices) % 3 = 0
        /\ \A i \in 1..Len(mesh.indices) :
             mesh.indices[i] >= 0 /\ mesh.indices[i] < Len(mesh.vertices)

C7_Witness ==
    /\ BuiltBy("column")
    /\ builder.subdivisions = Some(2)
    /\ builder.top_face
    /\ builder.bottom_face
    /\ Len(mesh.vertices) = 60
    /\ Len(mesh.indices) = 96

\* R holds A's vertices, normals and uvs followed by B's (compared by base
\* point), A's indices unchanged, then B's indices raised by A's vertex count
MergedFrom(R, A, B) ==
    LET n == Len(A.vertices)
        k == Len(A.indices)
    IN  /\ Len(R.vertices) = n + Len(B.vertices)
        /\ Len(R.normals) = Len(A.normals) + Len(B.normals)
        /\ Len(R.uvs) = Len(A.uvs) + Len(B.uvs)
        /\ Len(R.indices) = k + Len(B.indices)
        /\ \A i \in 1..n :
             /\ R.vertices[i].p = A.vertices[i].p
             /\ R.normals[i].p = A.normals[i].p
             /\ R.uvs[i].p = A.uvs[i].p
        /\ \A j \in 1..Len(B.vertices) :
             /\ R.vertices[n + j].p = B.vertices[j].p
             /\ R.normals[n + j].p = B.normals[j].p
             /\ R.uvs[n + j].p = B.uvs[j].p
        /\ \A i \in 1..k : R.indices[i] = A.indices[i]
        /\ \A j \in 1..Len(B.indices) : R.indices[k + j] = B.indices[j] + n

\* The meshes ColumnMeshBuilder::build merges, in the order it merges them
ColumnParts(b) ==
    [k \in 1..(6 * Subdivisions(b)) |-> SideQuad(b, (k - 1) \div 6, (k - 1) % 6)]
    \o (IF b.top_face THEN <<ColumnTop(b)>> ELSE << >>)
    \o (IF b.bottom_face THEN <<ColumnBottom(b)>> ELSE << >>)

\* The part of R that precedes the vertices and indices of the k-th of `parts`
Prefix(R, parts, k) ==
    LET RECURSIVE Count(_, _)
        Count(i, what) ==
            IF i = 0 THEN 0
            ELSE Count(i - 1, what) +
                 (IF what = "v" THEN Len(parts[i].vertices) ELSE Len(parts[i].indices))
        nv == Count(k - 1, "v")
        ni == Count(k - 1, "i")
    IN  [vertices |-> SubSeq(R.vertices, 1, nv),
         normals  |-> SubSeq(R.normals, 1, nv),
         uvs      |-> SubSeq(R.uvs, 1, nv),
         indices  |-> SubSeq(R.indices, 1, ni)]

\* C8: a merge appends B's vertices, normals and uvs after A's, keeps A's
\* indices and appends B's indices raised by A's vertex count: in Face::inset
\* A is the face with the connector triangles and B the inset face, in
\* ColumnMeshBuilder::build every part is merged so into the parts before it.
C8_MergeRebasesIndices ==
    /\ BuiltBy("inset") =>
         LET face == FaceOf(builder.shape)
             V == Len(face.positions)
             A == [MeshInfo_from(face) EXCEPT
                      !.indices = connection_indices(V, should_flip(builder.mode))]
             B0 == MeshInfo_from(face)
             B == IF builder.keep_inner_face THEN B0 ELSE [B0 EXCEPT !.indices = << >>]
         IN  /\ MergedFrom(mesh, A, B)
             /\ \A j \in 1..V : mesh.vertices[V + j].ops /= mesh.vertices[j].ops
    /\ BuiltBy("column") =>
         LET parts == ColumnParts(builder)
         IN  /\ \A k \in 1..Len(parts) :
                   MergedFrom(Prefix(mesh, parts, k + 1), Prefix(mesh, parts, k), parts[k])
             /\ Prefix(mesh, parts, Len(parts) + 1).indices = mesh.indices
             /\ Prefix(mesh, parts, Len(parts) + 1).vertices = mesh.vertices

C8_Witness ==
    /\ BuiltBy("column")
    /\ builder.top_face
    /\ builder.bottom_face
    /\ Subdivisions(builder) = 2
    /\ mesh.indices[Len(mesh.indices)] = 54
    /\ mesh.indices[7] = 6

\* C9: ColumnMeshBuilder::new(layout, h).without_bottom_face().build() has
\* 24 side-quad vertices followed by the 6 top-hexagon vertices, 30 in all,
\* no bottom-face vertex, and every index is below 30.
C9_NoBottomColumn ==
    (/\ BuiltBy("column")
     /\ ~builder.bottom_face
     /\ builder.top_face
     /\ ~builder.subdivisions.some) =>
        /\ Len(mesh.vertices) = 24 + 6
        /\ \A i \in 1..Len(mesh.indices) : mesh.indices[i] < 30
        /\ \A i \in 1..24 :
             /\ mesh.vertices[i].p[1] = "corner"
             /\ mesh.normals[i].p[1] = "side"
             /\ mesh.vertices[i].y \in {0, 1}
        /\ \A i \in 25..30 :
             /\ mesh.vertices[i].p[1] = "corner"
             /\ mesh.normals[i].p[1] = "BASE_FACING"
             /\ mesh.vertices[i].y = 1
        /\ \A i \in 1..Len(mesh.vertices) :
             \A j \in 1..Len(mesh.vertices[i].ops) :
                 mesh.vertices[i].ops[j] /= <<"R", "flip">>

C9_Witness ==
    /\ BuiltBy("column")
    /\ ~builder.bottom_face
    /\ builder.top_face
    /\ ~builder.subdivisions.some
    /\ builder.pos = <<0, 0>>
    /\ builder.offset = Unset
    /\ builder.facing = Unset
    /\ Len(mesh.vertices) = 30
    /\ Len(mesh.indices) = 36 + 12

\* A Hexagon was inset without its inner face
HexagonInsetNoInner ==
    \/ BuiltBy("inset") /\ builder.shape = "Hexagon" /\ ~builder.keep_inner_face
    \/ /\ BuiltBy("plane")
       /\ builder.inset_options.some
       /\ ~builder.inset_options.keep_inner_face

\* The k-th triangle of the index sequence
TriangleAt(m, k) == SubSeq(m.indices, 3 * k - 2, 3 * k)

\* C10 (as stated): Hexagon::inset with keep_inner_face = false produces 4
\* connector groups of 2 triangles, exactly 24 indices.
C10_FourConnectorGroups ==
    HexagonInsetNoInner => Len(mesh.indices) = 4 * 2 * 3

\* C10 (amended): Hexagon::inset with keep_inner_face = false produces 6
\* connector groups (one per boundary edge) of 2 triangles each and no
\* inner-face triangle: exactly 36 indices, every triangle joining the
\* original boundary (indices 0..5) to the inset boundary (indices 6..11).
C10_SixConnectorGroups ==
    HexagonInsetNoInner =>
        /\ Len(mesh.indices) = 6 * 2 * 3
        /\ Len(mesh.vertices) = 12
        /\ \A k \in 1..12 :
             LET t == TriangleAt(mesh, k)
             IN  /\ \E i \in 1..3 : t[i] < 6
                 /\ \E i \in 1..3 : t[i] >= 6 /\ t[i] < 12

C10_Witness ==
    /\ BuiltBy("inset")
    /\ builder.shape = "Hexagon"
    /\ ~builder.keep_inner_face
    /\ Len(mesh.indices) = 36
    /\ TriangleAt(mesh, 12) \in { <<5, 11, 6>>, <<6, 11, 5>> }

\* The scale, rotation and translation steps of a vertex, in the order applied
Transforms(v) == SelectSeq(v.ops, LAMBDA op : op[1] \in {"S", "R", "T"})

\* What Scale, Rotate, Translate gives for the options of builder b: the scale
\* if one is set, the rotation if one is set, then the translation by the
\* world position of b.pos plus the custom offset
ScaleRotateTranslate(b) ==
    (IF b.scale /= Unset THEN << <<"S", b.scale>> >> ELSE << >>)
    \o (IF b.rotation /= Unset THEN << <<"R", b.rotation>> >> ELSE << >>)
    \o << <<"T", VecT(<<IF b.center_aligned
                         THEN "hex_to_center_aligned_world_pos"
                         ELSE "hex_to_world_pos",
                        b.pos, b.offset>>)>> >>

\* The kinds of a sequence of transforms
Kinds(ts) == [i \in 1..Len(ts) |-> ts[i][1]]

\* C11: in every mesh built by PlaneMeshBuilder::build and
\* OutlineMeshBuilder::build each vertex is scaled first (if a scale is set),
\* rotated next (if a rotation is set) and translated last, once, by the world
\* position of the hex plus the custom offset: nothing scales or rotates the
\* translation.
C11_ScaleRotateTranslate ==
    (BuiltBy("plane") \/ BuiltBy("outline")) =>
        \A i \in 1..Len(mesh.vertices) :
            LET ts == Transforms(mesh.vertices[i])
                srt == ScaleRotateTranslate(builder)
            IN  /\ Kinds(ts) = Kinds(srt)
                /\ ts = srt

C11_Witness ==
    /\ BuiltBy("plane")
    /\ builder.scale /= Unset
    /\ builder.rotation = "rotation"
    /\ builder.offset /= Unset
    /\ builder.pos = <<1, -1>>
    /\ Kinds(Transforms(mesh.vertices[1])) = <<"S", "R", "T">>

\* The rotation ColumnMeshBuilder::build derives from the facing of builder b
FacingRotation(b) == <<"R", from_rotation_arc(normalize(b.facing))>>

\* C12 (as stated): in every mesh built by ColumnMeshBuilder::build with a
\* facing, no vertex is translated by the custom offset before it is rotated
\* by the facing: the rotation comes first.
C12_FacingBeforeTranslation ==
    (BuiltBy("column") /\ builder.facing /= Unset) =>
        \A i \in 1..Len(mesh.vertices) :
            LET ops == mesh.vertices[i].ops
            IN  \A j, k \in 1..Len(ops) :
                    (/\ ops[j][1] = "T"
                     /\ ops[k][1] = "R"
                     /\ ops[k] = FacingRotation(builder)) => k < j

\* C13 (as stated): a facing of length zero always ends in a panic: no
\* PlaneMeshBuilder or OutlineMeshBuilder holds the rotation computed from it
\* and no column mesh is built with it.
C13_ZeroFacingPanics ==
    /\ (builder.kind \in {"plane", "outline"} /\ builder.stage /= "panicked") =>
          builder.rotation /= "NaN"
    /\ BuiltBy("column") => builder.facing /= "ZERO"

\* a_star under the scheduling of a running program: the loop keeps iterating
FairSpec == Init /\ [][Next]_vars /\ WF_vars(Next)

(***************************************************************************)
(* Reference definitions for the claims about a_star                       *)
(***************************************************************************)
Passable(h) == CostOf(h).some

RECURSIVE ReachFrom(_)
\* The closure of S under "step to a neighbour whose cost is Some"
ReachFrom(S) ==
    LET N == S \cup { nb \in UNION { all_neighbors(h) : h \in S } : Passable(nb) }
    IN  IF N = S THEN S ELSE ReachFrom(N)

\* The coordinates a path from start through Some coordinates can end on
Reachable == ReachFrom({start})

SetMin(S) == CHOOSE m \in S : \A k \in S : m <= k

RECURSIVE Relax(_, _)
\* Bellman-Ford over Reachable: d[h] is the least total weight found so far of
\* a path from start to h, the weight of a path being the sum of W over its
\* coordinates after start
Relax(d, W) ==
    LET via(h) == { d[p] + W[h] : p \in all_neighbors(h) \cap DOMAIN d }
        new == { h \in Reachable : Passable(h) /\ via(h) /= {} }
        nd == [h \in DOMAIN d \cup new |->
                 IF h \in new
                 THEN SetMin(via(h) \cup (IF h \in DOMAIN d THEN {d[h]} ELSE {}))
                 ELSE d[h]]
    IN  IF nd = d THEN d ELSE Relax(nd, W)

\* Least total weight of a path from start to each reachable coordinate
MinWeight(W) == Relax((start :> 0), W)

\* The caller-supplied step cost of each coordinate
StepCost == [h \in Reachable |-> CostOf(h).val]

\* Sum of the caller-supplied step costs of a path, start excluded
PathCost(path) ==
    LET RECURSIVE Sum(_)
        Sum(i) == IF i > Len(path) THEN 0 ELSE CostOf(path[i]).val + Sum(i + 1)
    IN  Sum(2)

Returned == pc = "done"

(***************************************************************************)
(* Claims about a_star                                                     *)
(***************************************************************************)
\* C1 (as stated): whenever the goal is excluded by the cost function, whether
\* or not start equals the goal, a_star returns None.
C1_ExcludedGoalAlwaysNone ==
    (Returned /\ ~Passable(goal)) => ~result.some

\* C1 (amended): for a start different from the goal and a goal excluded by
\* the cost function, a_star never returns a path: when it returns, it
\* returns None.  For start = goal it returns Some([start]).
C1_ExcludedGoalNoPath ==
    /\ (Returned /\ ~Passable(goal) /\ start /= goal) => ~result.some
    /\ (Returned /\ start = goal) => result = Some(<<start>>)

C1_Witness ==
    /\ Returned
    /\ ~Passable(goal)
    /\ start /= goal
    /\ ~result.some
    /\ Cardinality(DOMAIN costs) >= 3

\* C2: a returned path has the least sum of caller-supplied step costs (start
\* excluded) among all paths from start to end through Some coordinates.
C2_ShortestByStepCost ==
    (Returned /\ result.some) =>
        PathCost(result.val) = MinWeight(StepCost)[goal]

NoDuplicates(path) ==
    \A i, j \in 1..Len(path) : path[i] = path[j] => i = j

\* C4: a returned path starts at start, ends at end, steps between edge
\* neighbours and repeats no coordinate; the walk of the predecessor map from
\* any recorded coordinate reaches start and stops there.
C4_PathWellFormed ==
    /\ (Returned /\ result.some) =>
         LET path == result.val
         IN  /\ Len(path) >= 1
             /\ path[1] = start
             /\ path[Len(path)] = goal
             /\ \A i \in 1..(Len(path) - 1) : path[i + 1] \in all_neighbors(path[i])
             /\ NoDuplicates(path)
    /\ start \notin DOMAIN came_from
    /\ \A h \in DOMAIN came_from :
         LET walk == Successors(came_from, h)
         IN  walk[Len(walk)] = start

C4_Witness ==
    /\ Returned
    /\ result.some
    /\ Len(result.val) >= 4
    /\ result.val[1] = start
    /\ result.val[Len(result.val)] = goal

\* The coordinates that have been pushed on the open set or recorded
Touched == DOMAIN costs \cup DOMAIN came_from \cup { n.coord : n \in open }

\* C5 (as stated): a coordinate whose cost is None is never pushed on the open
\* set and never receives a cost-so-far or predecessor entry; no element of a
\* returned path after the first is excluded.
C5_ExcludedNeverTouched ==
    /\ \A h \in Touched : Passable(h)
    /\ (Returned /\ result.some) =>
         \A i \in 2..Len(result.val) : Passable(result.val[i])

\* C5 (amended): a coordinate other than start whose cost is None is never
\* pushed on the open set and never receives a cost-so-far or predecessor
\* entry; no element of a returned path after the first is excluded.
C5_ExcludedNeverTouchedButStart ==
    /\ \A h \in Touched \ {start} : Passable(h)
    /\ \A h \in DOMAIN came_from : Passable(h)
    /\ (Returned /\ result.some) =>
         \A i \in 2..Len(result.val) : Passable(result.val[i])

C5_Witness ==
    /\ Returned
    /\ result.some
    /\ Len(result.val) >= 3
    /\ \E h \in all_neighbors(start) : h \in DOMAIN cost /\ ~Passable(h)
    /\ \E i \in 2..(Len(result.val) - 1) :
         \E h \in all_neighbors(result.val[i]) : h \in DOMAIN cost /\ ~Passable(h)

\* C6: when end cannot be reached from start through the finite region of
\* Some coordinates, a_star terminates and returns None; a coordinate that
\* already has a recorded cost is pushed again only when that cost strictly
\* decreases.
C6_UnreachableTerminatesNone ==
    /\ (goal \notin Reachable) ~> (Returned /\ result = NoPath)
    /\ [][\A n \in open' \ open :
            n.coord \in DOMAIN costs => costs'[n.coord] < costs[n.coord]]_vars

C6_Witness ==
    /\ Returned
    /\ goal \notin Reachable
    /\ result = NoPath
    /\ open = {}
    /\ Cardinality(DOMAIN costs) >= 3

C15_OriginAddedLast ==
    call.fn = "hex_to_world_pos" =>
        LET m == layout.orientation.forward_matrix
            x == as_f32(call.hex[1])
            y == as_f32(call.hex[2])
            sx == IF layout.invert_x THEN as_f32(-1) ELSE as_f32(1)
            sy == IF layout.invert_y THEN as_f32(1) ELSE as_f32(-1)
            mx == FAdd(FMul(m[1], x), FMul(m[2], y))
            my == FAdd(FMul(m[3], x), FMul(m[4], y))
        IN  /\ Vec2_sub(call.pos, layout.origin) =
                 <<FMul(FMul(mx, layout.hex_size[1]), sx),
                   FMul(FMul(my, layout.hex_size[2]), sy)>>
            /\ call.hex = <<0, 0>> => call.pos = layout.origin

C15_Witness ==
    /\ call.fn = "hex_to_world_pos"
    /\ call.hex = <<0, 0>>
    /\ layout.origin = <<as_f32(1), as_f32(2)>>
    /\ layout.hex_size = <<as_f32(10), as_f32(10)>>
    /\ layout.invert_x
    /\ call.pos = <<as_f32(1), as_f32(2)>>

\* The corners the tests of layout.rs expect for hex_size 10 at the origin
RoundedCorners(orientation) ==
    IF orientation = "Flat"
    THEN << <<10, 0>>, <<5, 9>>, <<-5, 9>>, <<-10, 0>>, <<-5, -9>>, <<5, -9>> >>
    ELSE << <<9, 5>>, <<0, 10>>, <<-9, 5>>, <<-9, -5>>, <<0, -10>>, <<9, -5>> >>

\* The layout of those tests, asked for the corners of Hex::ZERO
TestLayoutCorners ==
    /\ call.fn = "hex_corners"
    /\ call.hex = <<0, 0>>
    /\ layout.origin = <<as_f32(0), as_f32(0)>>
    /\ layout.hex_size = <<as_f32(10), as_f32(10)>>

\* C16: hex_corners(hex) answers 6 points, the i-th (from 0) being the centre
\* of the hex plus (hex_size.x * cos(a), hex_size.y * sin(a)) for the angle
\* a = 60 * i degrees when the orientation is flat and 60 * i + 30 degrees
\* when it is pointy; for hex_size 10 at the origin they round to the corners
\* the tests expect, (10, 0) first when flat and (9, 5) first when pointy.
C16_CornersByAngle ==
    call.fn = "hex_corners" =>
        LET center == hex_to_world_pos(layout, call.hex)
            first == IF layout.orientation.name = "Flat" THEN 0 ELSE 30
            a(i) == 60 * i + first
        IN  /\ Len(call.corners) = 6
            /\ \A i \in 0..5 :
                 call.corners[i + 1] =
                     Vec2_add(center,
                              <<FMul(layout.hex_size[1], cos(a(i) \div 30)),
                                FMul(layout.hex_size[2], sin(a(i) \div 30))>>)
            /\ TestLayoutCorners =>
                 \A i \in 1..6 :
                     <<FRound(call.corners[i][1]), FRound(call.corners[i][2])>> =
                         RoundedCorners(layout.orientation.name)[i]

C16_Witness ==
    /\ TestLayoutCorners
    /\ layout.orientation.name = "Pointy"
    /\ FRound(call.corners[1][1]) = 9
    /\ FRound(call.corners[1][2]) = 5
    /\ call.corners[2] = <<as_f32(0), as_f32(10)>>

(***************************************************************************)
(* Claims about the directions                                             *)
(***************************************************************************)
\* C17: rotate_cw(n) followed by rotate_ccw(n), and rotate_ccw(n) followed by
\* rotate_cw(n), answer the direction they started from, for every n; a
\* rotation by a multiple of 6 answers the direction it is called on.
C17_RotationsUndoEachOther ==
    /\ (calls = <<"rotate_cw", "rotate_ccw">> \/ calls = <<"rotate_ccw", "rotate_cw">>) =>
          chain[3] = dir
    /\ (turns % 6 = 0 /\ (calls = <<"rotate_cw">> \/ calls = <<"rotate_ccw">>)) =>
          chain[2] = dir

C17_Witness ==
    /\ calls = <<"rotate_cw", "rotate_ccw">>
    /\ turns = 8
    /\ dir = Value("Direction", "Top", 0)
    /\ chain[2] = Value("Direction", "BottomRight", 0)
    /\ chain[3] = dir

RECURSIVE StepsClockwise(_, _)
\* clockwise() applied n times to d
StepsClockwise(d, n) == IF n = 0 THEN d ELSE clockwise(StepsClockwise(d, n - 1))

RECURSIVE StepsCounterClockwise(_, _)
\* counter_clockwise() applied n times to d
StepsCounterClockwise(d, n) ==
    IF n = 0 THEN d ELSE counter_clockwise(StepsCounterClockwise(d, n - 1))

\* The chain is `fn` called k >= 1 times
Repeated(fn, k) == Len(calls) = k /\ k >= 1 /\ \A i \in 1..k : calls[i] = fn

\* C18: rotate_cw(n) answers what n calls of clockwise() answer and
\* rotate_ccw(n) what n calls of counter_clockwise() answer; k single steps
\* in one sense end where a rotation by k ends, and six of them pass through
\* all six directions and end on the direction they started from.
C18_RotationIsRepeatedStep ==
    /\ calls = <<"rotate_cw">> => chain[2].name = StepsClockwise(dir.name, turns)
    /\ calls = <<"rotate_ccw">> => chain[2].name = StepsCounterClockwise(dir.name, turns)
    /\ \A k \in 1..Len(calls) :
         /\ Repeated("clockwise", k) => chain[k + 1].name = rotate_cw(dir.name, k)
         /\ Repeated("counter_clockwise", k) => chain[k + 1].name = rotate_ccw(dir.name, k)
    /\ (Repeated("clockwise", 6) \/ Repeated("counter_clockwise", 6)) =>
          /\ chain[7] = dir
          /\ { chain[i].name : i \in 1..6 } = { ALL_DIRECTIONS[i] : i \in 1..6 }

C18_Witness ==
    /\ Repeated("clockwise", 6)
    /\ dir = Value("Direction", "TopLeft", 0)
    /\ chain[2] = Value("Direction", "Top", 0)
    /\ chain[7] = dir

\* C19: from a Direction, diagonal_ccw then direction_cw and diagonal_cw then
\* direction_ccw answer the direction again; from a DiagonalDirection,
\* direction_ccw then diagonal_cw and direction_cw then diagonal_ccw answer
\* the diagonal again.
C19_DiagonalsInterleave ==
    (\/ calls = <<"diagonal_ccw", "direction_cw">>
     \/ calls = <<"diagonal_cw", "direction_ccw">>
     \/ calls = <<"direction_ccw", "diagonal_cw">>
     \/ calls = <<"direction_cw", "diagonal_ccw">>) =>
        /\ chain[3] = dir
        /\ chain[2].enum /= dir.enum

C19_Witness ==
    /\ calls = <<"direction_cw", "diagonal_ccw">>
    /\ dir = Value("DiagonalDirection", "Left", 0)
    /\ chain[2] = Value("Direction", "TopLeft", 0)
    /\ chain[3] = dir

\* The position of each direction in the enumeration
EnumerationOrder ==
    [TopRight |-> 0, Top |-> 1, TopLeft |-> 2, BottomLeft |-> 3, Bottom |-> 4,
     BottomRight |-> 5]

\* C20: for the i-th direction angle_pointy_degrees() is 60 * i and
\* angle_flat_degrees() is 60 * i + 30; in each orientation the angles lie in
\* [0, 360) and increase with i, so they are distinct.
C20_AnglesInDegrees ==
    /\ calls = <<"angle_pointy_degrees">> =>
          /\ chain[2].num = 60 * EnumerationOrder[dir.name]
          /\ chain[2].num >= 0 /\ chain[2].num < 360
          /\ \A e \in DOMAIN EnumerationOrder :
               EnumerationOrder[e] < EnumerationOrder[dir.name] =>
                   angle_pointy_degrees(e) < chain[2].num
    /\ calls = <<"angle_flat_degrees">> =>
          /\ chain[2].num = 60 * EnumerationOrder[dir.name] + 30
          /\ chain[2].num >= 0 /\ chain[2].num < 360
          /\ \A e \in DOMAIN EnumerationOrder :
               EnumerationOrder[e] < EnumerationOrder[dir.name] =>
                   angle_flat_degrees(e) < chain[2].num

C20_Witness ==
    /\ calls = <<"angle_flat_degrees">>
    /\ dir = Value("Direction", "BottomRight", 0)
    /\ chain[2] = Value("f32", "degrees", 330)

\* C21: for every direction d, d.angle(&HexOrientation::flat()) is
\* d.angle_flat() and d.angle(&HexOrientation::pointy()) is d.angle_pointy().
C21_GenericAngleAgrees ==
    /\ calls = <<"angle(&flat)">> => chain[2].num = angle_flat(dir.name)
    /\ calls = <<"angle(&pointy)">> => chain[2].num = angle_pointy(dir.name)

(***************************************************************************)
(* Claims about rings and fields of view                                   *)
(***************************************************************************)
\* C22: c.ring(0) yields exactly [c]; for r >= 1, c.ring(r) yields exactly
\* 6 * r pairwise distinct coordinates, each at distance exactly r from c.
C22_RingCoordinates ==
    call.fn = "ring" =>
        /\ call.range = 0 => call.out = <<call.hex>>
        /\ call.range >= 1 =>
              /\ Len(call.out) = 6 * call.range
              /\ \A i, j \in 1..Len(call.out) :
                    i /= j => call.out[i] /= call.out[j]
              /\ \A i \in 1..Len(call.out) :
                    unsigned_distance_to(call.out[i], call.hex) = call.range

C22_Witness ==
    /\ call.fn = "ring"
    /\ call.hex = <<1, -2>>
    /\ call.range = 3
    /\ Len(call.out) = 18

\* C23: when nothing blocks, range_fov(origin, r, blocking) is the set of the
\* coordinates of origin.spiral_range(0..=r): every coordinate at distance
\* at most r from origin and no other.
C23_FieldOfViewWithoutBlockers ==
    (call.fn = "range_fov" /\ call.blocked = {}) =>
        LET spiral == spiral_range(call.hex, call.range)
            r == call.range
            Near == { <<call.hex[1] + dx, call.hex[2] + dy>> :
                          dx \in (-r)..r, dy \in (-r)..r }
        IN  /\ call.out = { spiral[k] : k \in 1..Len(spiral) }
            /\ call.out =
                  { h \in Near : unsigned_distance_to(h, call.hex) <= r }

C23_Witness ==
    /\ call.fn = "range_fov"
    /\ call.blocked = {}
    /\ call.range = 3
    /\ call.hex = <<-1, 2>>
    /\ Cardinality(call.out) = 37

(***************************************************************************)
(* Claims about the faces and the column                                   *)
(***************************************************************************)
\* C24: Face::inset answers the triangles of the inner face if and only if
\* keep_inner_face is true; they are the TRIS triangles of the original face
\* with every index increased by VERTS, so they lie in [VERTS, 2 * VERTS); in
\* both cases the mesh has 2 * VERTS vertices, the original boundary first and
\* the inset boundary second.
C24_InnerFaceOnlyIfKept ==
    BuiltBy("inset") =>
        LET face == FaceOf(builder.shape)
            VERTS == Len(face.positions)
            TRIS == Len(face.triangles)
            original == FlatTriangles(face.triangles)
            Inner == { k \in 1..(Len(mesh.indices) \div 3) :
                         \A i \in 1..3 : TriangleAt(mesh, k)[i] >= VERTS }
        IN  /\ Len(mesh.vertices) = 2 * VERTS
            /\ SubSeq(mesh.vertices, 1, VERTS) = face.positions
            /\ SubSeq(mesh.vertices, VERTS + 1, 2 * VERTS) =
                  InsetFace(face, builder.mode).positions
            /\ Len(mesh.indices) % 3 = 0
            /\ (Inner /= {}) <=> builder.keep_inner_face
            /\ builder.keep_inner_face =>
                  /\ Inner = (2 * VERTS + 1)..(2 * VERTS + TRIS)
                  /\ \A i \in 1..(3 * TRIS) :
                        /\ mesh.indices[6 * VERTS + i] = original[i] + VERTS
                        /\ mesh.indices[6 * VERTS + i] < 2 * VERTS

C24_Witness ==
    /\ BuiltBy("inset")
    /\ builder.shape = "Quad"
    /\ builder.keep_inner_face
    /\ Len(mesh.vertices) = 8
    /\ Len(mesh.indices) = 30
    /\ SubSeq(mesh.indices, 25, 30) = <<6, 5, 4, 4, 7, 6>>

\* Triangle t runs along the vertex loop 0, 1, .. (TRUE) or against it (FALSE)
AlongLoop(t) ==
    \/ t[1] < t[2] /\ t[2] < t[3]
    \/ t[2] < t[3] /\ t[3] < t[1]
    \/ t[3] < t[1] /\ t[1] < t[2]

\* The triangles `tris` (index triples) triangulate the loop of VERTS
\* vertices, all wound the same way
Triangulates(tris, VERTS) ==
    LET Uses(k, i, j) == {i, j} \subseteq {tris[k][1], tris[k][2], tris[k][3]}
        Count(i, j) == Cardinality({ k \in 1..Len(tris) : Uses(k, i, j) })
    IN  /\ Len(tris) = VERTS - 2
        /\ \A k \in 1..Len(tris) :
              /\ \A i \in 1..3 : tris[k][i] >= 0 /\ tris[k][i] < VERTS
              /\ Cardinality({tris[k][1], tris[k][2], tris[k][3]}) = 3
              /\ AlongLoop(tris[k]) = AlongLoop(tris[1])
        /\ \A i, j \in 0..(VERTS - 1) :
              i < j =>
                  IF j = i + 1 \/ (i = 0 /\ j = VERTS - 1)
                  THEN Count(i, j) = 1
                  ELSE Count(i, j) \in {0, 2}

\* C25: the 2 triangles of Quad::from_bottom and the 4 triangles of
\* Hexagon::center_aligned triangulate the vertex loop of the face: all wound
\* in the same sense, every index below VERTS, every boundary edge in exactly
\* one triangle and every interior diagonal in exactly two.
C25_FacesTriangulated ==
    /\ (BuiltBy("plane") /\ ~builder.inset_options.some) =>
          /\ Len(mesh.vertices) = 6
          /\ Triangulates([k \in 1..(Len(mesh.indices) \div 3) |->
                               TriangleAt(mesh, k)], 6)
    /\ BuiltBy("column") =>
          \A q \in 0..(6 * Subdivisions(builder) - 1) :
              Triangulates([k \in 1..2 |->
                              [i \in 1..3 |->
                                  TriangleAt(mesh, 2 * q + k)[i] - 4 * q]], 4)

C25_Witness ==
    /\ BuiltBy("plane")
    /\ ~builder.inset_options.some
    /\ TriangleAt(mesh, 3) = <<0, 5, 3>>
    /\ TriangleAt(mesh, 4) = <<3, 2, 0>>

\* C26: the bottom face of a column lies in the footprint of the column: its
\* 6 vertices are the 6 corners of the hex at height 0, at the same x and z as
\* the vertices of the top face and as the bottom edge of the lowest side
\* quads (the `left` vertex of side i, vertex 4 * i + 3, is corner i at
\* height 0).  Stated for the hexes away from Hex::ZERO, whose corners do not
\* lie around the origin of the world.
C26_BottomFaceInFootprint ==
    (BuiltBy("column") /\ builder.bottom_face /\ builder.pos /= <<0, 0>>) =>
        LET sides == 24 * Subdivisions(builder)
            bottom == sides + (IF builder.top_face THEN 6 ELSE 0)
        IN  \A i \in 0..5 :
                /\ mesh.vertices[bottom + i + 1] = mesh.vertices[4 * i + 4]
                /\ builder.top_face =>
                      /\ mesh.vertices[bottom + i + 1].p = mesh.vertices[sides + i + 1].p
                      /\ mesh.vertices[bottom + i + 1].ops =
                            mesh.vertices[sides + i + 1].ops

\* C27: with N = max(n, 1) for the requested subdivision count n (unset or 0
\* counting as 1) the column has N rings of 6 side quads, 24 * N side vertices
\* and 36 * N side indices; ring i spans the heights i * height / N to
\* (i + 1) * height / N, so the rings stack from 0 to the full height, and
\* the top face lies at the top edge of the last ring.  Heights are counted
\* in units of height / N.
C27_RingsStack ==
    BuiltBy("column") =>
        LET n == IF builder.subdivisions.some THEN builder.subdivisions.val ELSE 0
            N == IF n = 0 THEN 1 ELSE n
            caps == (IF builder.top_face THEN 1 ELSE 0) +
                    (IF builder.bottom_face THEN 1 ELSE 0)
        IN  /\ Len(mesh.vertices) = 24 * N + 6 * caps
            /\ Len(mesh.indices) = 36 * N + 12 * caps
            /\ \A q \in 0..(6 * N - 1) :
                  LET ring_i == q \div 6
                      side == q % 6
                      quad == SubSeq(mesh.vertices, 4 * q + 1, 4 * q + 4)
                  IN  /\ quad[1].p = <<"corner", (side + 1) % 6, builder.pos>>
                      /\ quad[2].p = quad[1].p
                      /\ quad[4].p = <<"corner", side, builder.pos>>
                      /\ quad[3].p = quad[4].p
                      /\ quad[1].y = ring_i /\ quad[4].y = ring_i
                      /\ quad[2].y = ring_i + 1 /\ quad[3].y = ring_i + 1
                      /\ \A k \in 1..6 :
                            /\ mesh.indices[6 * q + k] >= 4 * q
                            /\ mesh.indices[6 * q + k] < 4 * q + 4
            /\ builder.top_face =>
                  \A i \in 1..6 :
                      /\ mesh.vertices[24 * N + i].p = <<"corner", i - 1, builder.pos>>
                      /\ mesh.vertices[24 * N + i].y = N

C27_Witness ==
    /\ BuiltBy("column")
    /\ builder.subdivisions = Some(2)
    /\ builder.top_face
    /\ Len(mesh.vertices) >= 54
    /\ mesh.vertices[26].y = 2
    /\ mesh.vertices[49].y = 2

(***************************************************************************)
(* Claims about the bookkeeping of a_star                                  *)
(***************************************************************************)
\* C28: at every iteration of the loop, each coordinate n with a predecessor
\* entry has came_from[n] among its edge neighbours, cost(n) = Some(c) and
\* costs[n] = costs[came_from[n]] + c + distance(n, start); start never gets
\* a predecessor entry and costs[start] stays 0.
C28_PredecessorBookkeeping ==
    /\ \A n \in DOMAIN came_from :
          /\ came_from[n] \in all_neighbors(n)
          /\ CostOf(n).some
          /\ n \in DOMAIN costs /\ came_from[n] \in DOMAIN costs
          /\ costs[n] = costs[came_from[n]] + CostOf(n).val +
                            unsigned_distance_to(n, start)
    /\ start \notin DOMAIN came_from
    /\ pc /= "entry" => costs[start] = 0

C28_Witness ==
    /\ pc = "loop"
    /\ start = <<0, 0>>
    /\ <<2, 0>> \in DOMAIN came_from
    /\ came_from[<<2, 0>>] = <<1, 0>>
    /\ cost[<<2, 0>>] = Some(1)
    /\ costs[<<2, 0>>] = costs[<<1, 0>>] + 3

\* The weight a_star gives a coordinate: its step cost plus its distance to
\* start
StepWeight == [h \in Reachable |-> CostOf(h).val + unsigned_distance_to(h, start)]

\* Sum of the weights of the coordinates of a path, start excluded
PathWeight(p) ==
    LET RECURSIVE Sum(_)
        Sum(i) == IF i > Len(p) THEN 0
                  ELSE CostOf(p[i]).val + unsigned_distance_to(p[i], start) + Sum(i + 1)
    IN  Sum(2)

\* C29: every pop takes an entry of minimal priority from the open set, and
\* the path a_star returns has the least sum, over its coordinates after
\* start, of step cost + distance to start among all paths from start to end
\* through non-excluded coordinates; the cost recorded for end when it is
\* popped is that least sum.
C29_MinimalWeightPath ==
    /\ [](pc \in {"loop", "done"} => \A n \in open : popped.cost <= n.cost)
    /\ []((Returned /\ result.some) =>
            /\ popped.coord = goal
            /\ popped.cost = MinWeight(StepWeight)[goal]
            /\ PathWeight(result.val) = MinWeight(StepWeight)[goal])
    /\ [][(pc = "loop" /\ open' /= open) =>
            /\ popped' \in open
            /\ \A n \in open : popped'.cost <= n.cost]_vars

C29_Witness ==
    /\ Returned
    /\ result.some
    /\ result.val = << <<0, 0>>, <<1, 0>>, <<2, 0>> >>
    /\ cost[<<1, 0>>] = Some(1)
    /\ cost[<<0, 1>>] = Some(0) /\ cost[<<1, 1>>] = Some(0)
    /\ popped = Node(<<2, 0>>, 4)

\* C30: a_star does not look at the cost of start before it expands it:
\* a_star(s, s, cost) returns Some([s]) whatever cost says; from a start whose
\* cost is None the first iteration still records every non-excluded
\* neighbour of start with start as its predecessor, and every path returned
\* begins at start.
C30_StartNeverEvaluated ==
    /\ (Returned /\ start = goal) =>
          /\ result = Some(<<start>>)
          /\ came_from = << >>
    /\ (pc \in {"loop", "done"} /\ start /= goal /\ Node(start, 0) \notin open) =>
          \A nb \in all_neighbors(start) :
              CostOf(nb).some => nb \in DOMAIN came_from /\ nb \in DOMAIN costs
    /\ (Returned /\ result.some) => result.val[1] = start

C30_Witness ==
    /\ Returned
    /\ ~CostOf(start).some
    /\ start /= goal
    /\ result.some
    /\ Len(result.val) >= 3
    /\ result.val[1] = start

=============================================================================
